---- MODULE Spec2Model ----
(***************************************************************************)
(* The summarization and trust-classification service of News-F.           *)
(*                                                                         *)
(* The repository holds three revisions of server/services/openai.ts:      *)
(*   "pdflib"  src/server/services/openai.ts lines 1-179                   *)
(*             (rule-based summarizer, pdf-lib reader, puppeteer pages),   *)
(*   "pdfco"   src/server/services/openai.ts lines 181-343                 *)
(*             (rule-based summarizer, PDF.co reader, scraper API pages),  *)
(*   "hf"      src/unnamed/part_001                                        *)
(*             (remote summarizer with chunk/merge/recurse).               *)
(* One request is followed from its call to its return.  A JavaScript      *)
(* string is the sequence of its characters.                               *)
(*                                                                         *)
(* The route POST /api/summarize/url that calls summarizeText has two      *)
(* revisions, src/server/routes.ts and src/server/index.ts, and the page   *)
(* src/client/src/pages/summarizer.tsx is followed through its handlers.   *)
(***************************************************************************)
EXTENDS Integers, Sequences, FiniteSets, TLC

VARIABLES
  op,          \* the function called: "summarize", "detect", "rule", "chat";
               \* "url" for the route, "page" for the summarizer page
  impl,        \* the revision that serves the request
  kind,        \* summarizeText: the `type` argument
  input,       \* the `input` / `text` argument
  pc,          \* where the request stands
  result,      \* how summarizeText / detectFakeNews ended
  verdict,     \* detectFakeNews: the object returned
  pdfText,     \* summarizeText: what readPdfContent returned
  browser,     \* link branch: state of the launched browser
  page,        \* link branch: the text read from the page
  videoId,     \* youtube branch: the identifier parsed from the reference
  hfText,      \* hfSummarize: the `text` argument of the running pass
  chunks,      \* hfSummarize: `chunks`
  summaries,   \* hfSummarize: `summaries`
  inflight,    \* hfSummarize: summarization calls awaiting their response
  posts,       \* history: the `inputs` of the calls issued in the running pass
  replies,     \* history: how each call of the running pass ended
  pass,        \* history: number of the running pass (saturates at MaxPass)
  strategies,  \* history: the summarization strategies invoked
  outbound,    \* history: the remote collaborators contacted
  extract,     \* history: how extraction ended
  classifyCalls, \* history: number of remote classification calls issued
  reply,       \* history: what the remote classifier answered
  chatCalls,   \* history: number of remote chat-completion calls issued
  chatSent,    \* history: the user content sent to the chat model
  chatReply,   \* history: what the chat-completion call answered
  route,       \* POST /api/summarize/url: revision, address and response
  ui,          \* summarizer page: the state of the component
  calls        \* summarizer page: the handlers' requests awaiting an answer

vars == <<op, impl, kind, input, pc, result, verdict, pdfText, browser, page,
          videoId,
          hfText, chunks, summaries, inflight, posts, replies, pass,
          strategies, outbound, extract, classifyCalls, reply,
          chatCalls, chatSent, chatReply, route, ui, calls>>

(***************************************************************************)
(* Bounds of the model.                                                    *)
(***************************************************************************)
\* Longest text handed to the remote summarizer, in words.
MaxWords == 1200
\* The pass counter stops counting here.
MaxPass == 3

(***************************************************************************)
(* String literals of the source.                                          *)
(***************************************************************************)
\* "Unsupported summarization type."
MsgUnsupported ==
  <<"U","n","s","u","p","p","o","r","t","e","d"," ","s","u","m","m","a","r","i","z","a","t","i","o","n"," ","t","y","p","e",".">>

\* "Summarization failed due to internal error."
MsgInternalError ==
  <<"S","u","m","m","a","r","i","z","a","t","i","o","n"," ","f","a","i","l","e","d"," ","d","u","e"," ","t","o"," ","i","n","t","e","r","n","a","l"," ","e","r","r","o","r",".">>

\* "Invalid YouTube URL."
MsgInvalidYouTube ==
  <<"I","n","v","a","l","i","d"," ","Y","o","u","T","u","b","e"," ","U","R","L",".">>

\* "Video not found."
MsgVideoNotFound ==
  <<"V","i","d","e","o"," ","n","o","t"," ","f","o","u","n","d",".">>

\* "No readable text found in PDF."
MsgPdfNoTextRead ==
  <<"N","o"," ","r","e","a","d","a","b","l","e"," ","t","e","x","t"," ","f","o","u","n","d"," ","i","n"," ","P","D","F",".">>

\* "Failed to read PDF file."
MsgPdfReadFailed ==
  <<"F","a","i","l","e","d"," ","t","o"," ","r","e","a","d"," ","P","D","F"," ","f","i","l","e",".">>

\* "Failed to read PDF via PDF.co."
MsgPdfCoReadFailed ==
  <<"F","a","i","l","e","d"," ","t","o"," ","r","e","a","d"," ","P","D","F"," ","v","i","a"," ","P","D","F",".","c","o",".">>

\* "No readable text extracted from the PDF."
MsgPdfNoTextExtracted ==
  <<"N","o"," ","r","e","a","d","a","b","l","e"," ","t","e","x","t"," ","e","x","t","r","a","c","t","e","d"," ","f","r","o","m"," ","t","h","e"," ","P","D","F",".">>

\* "Failed to extract text from webpage."
MsgLinkNoText ==
  <<"F","a","i","l","e","d"," ","t","o"," ","e","x","t","r","a","c","t"," ","t","e","x","t"," ","f","r","o","m"," ","w","e","b","p","a","g","e",".">>

\* "Failed to extract text. Please copy-paste article content."
MsgLinkNoTextHF ==
  <<"F","a","i","l","e","d"," ","t","o"," ","e","x","t","r","a","c","t"," ","t","e","x","t","."," ","P","l","e","a","s","e"," ","c","o","p","y","-","p","a","s","t","e"," ","a","r","t","i","c","l","e"," ","c","o","n","t","e","n","t",".">>

\* "No content to summarize from this video."
MsgNoContentVideo ==
  <<"N","o"," ","c","o","n","t","e","n","t"," ","t","o"," ","s","u","m","m","a","r","i","z","e"," ","f","r","o","m"," ","t","h","i","s"," ","v","i","d","e","o",".">>

\* "Unable to fetch video details. Please provide text manually."
MsgVideoFetchFailed ==
  <<"U","n","a","b","l","e"," ","t","o"," ","f","e","t","c","h"," ","v","i","d","e","o"," ","d","e","t","a","i","l","s","."," ","P","l","e","a","s","e"," ","p","r","o","v","i","d","e"," ","t","e","x","t"," ","m","a","n","u","a","l","l","y",".">>

\* "No text to summarize."
MsgNoText ==
  <<"N","o"," ","t","e","x","t"," ","t","o"," ","s","u","m","m","a","r","i","z","e",".">>

\* "Text too short to summarize."
MsgTooShort ==
  <<"T","e","x","t"," ","t","o","o"," ","s","h","o","r","t"," ","t","o"," ","s","u","m","m","a","r","i","z","e",".">>

\* "Summarization failed."
MsgSummarizationFailed ==
  <<"S","u","m","m","a","r","i","z","a","t","i","o","n"," ","f","a","i","l","e","d",".">>

\* "AI temporarily unavailable."
MsgAIUnavailable ==
  <<"A","I"," ","t","e","m","p","o","r","a","r","i","l","y"," ","u","n","a","v","a","i","l","a","b","l","e",".">>

\* "(Chunk summarization failed: "
ChunkFailedPrefix ==
  <<"(","C","h","u","n","k"," ","s","u","m","m","a","r","i","z","a","t","i","o","n"," ","f","a","i","l","e","d",":"," ">>

\* "(Chunk summarization failed: unknown response)"
ChunkFailedUnknown ==
  <<"(","C","h","u","n","k"," ","s","u","m","m","a","r","i","z","a","t","i","o","n"," ","f","a","i","l","e","d",":"," ","u","n","k","n","o","w","n"," ","r","e","s","p","o","n","s","e",")">>

\* "Trusted source: "
ReasonTrustedPrefix ==
  <<"T","r","u","s","t","e","d"," ","s","o","u","r","c","e",":"," ">>

\* "Content from trusted source: "
ReasonTrustedPrefixPdfCo ==
  <<"C","o","n","t","e","n","t"," ","f","r","o","m"," ","t","r","u","s","t","e","d"," ","s","o","u","r","c","e",":"," ">>

\* "Sensational language indicates possible misinformation."
ReasonSensational ==
  <<"S","e","n","s","a","t","i","o","n","a","l"," ","l","a","n","g","u","a","g","e"," ","i","n","d","i","c","a","t","e","s"," ","p","o","s","s","i","b","l","e"," ","m","i","s","i","n","f","o","r","m","a","t","i","o","n",".">>

\* "Too short to verify credibility."
ReasonTooShort ==
  <<"T","o","o"," ","s","h","o","r","t"," ","t","o"," ","v","e","r","i","f","y"," ","c","r","e","d","i","b","i","l","i","t","y",".">>

\* "Source not verified against trusted list."
ReasonNotVerified ==
  <<"S","o","u","r","c","e"," ","n","o","t"," ","v","e","r","i","f","i","e","d"," ","a","g","a","i","n","s","t"," ","t","r","u","s","t","e","d"," ","l","i","s","t",".">>

\* "Source not found in trusted list."
ReasonNotFound ==
  <<"S","o","u","r","c","e"," ","n","o","t"," ","f","o","u","n","d"," ","i","n"," ","t","r","u","s","t","e","d"," ","l","i","s","t",".">>

\* "Temporarily unavailable - try again later"
ReasonUnavailable ==
  <<"T","e","m","p","o","r","a","r","i","l","y"," ","u","n","a","v","a","i","l","a","b","l","e"," ","-"," ","t","r","y"," ","a","g","a","i","n"," ","l","a","t","e","r">>

\* "Analysis unavailable"
ReasonDefault ==
  <<"A","n","a","l","y","s","i","s"," ","u","n","a","v","a","i","l","a","b","l","e">>

\* "shocking"
WordShocking ==
  <<"s","h","o","c","k","i","n","g">>

\* "breaking"
WordBreaking ==
  <<"b","r","e","a","k","i","n","g">>

\* "miracle"
WordMiracle ==
  <<"m","i","r","a","c","l","e">>

\* The allowlist of the rule-based revisions, in list order.
trustedSources ==
  <<
    <<"t","h","e"," ","h","i","n","d","u">>,
    <<"t","i","m","e","s"," ","o","f"," ","i","n","d","i","a">>,
    <<"i","n","d","i","a","n"," ","e","x","p","r","e","s","s">>,
    <<"h","i","n","d","u","s","t","a","n"," ","t","i","m","e","s">>,
    <<"n","d","t","v">>,
    <<"b","u","s","i","n","e","s","s"," ","s","t","a","n","d","a","r","d">>,
    <<"m","i","n","t">>,
    <<"e","c","o","n","o","m","i","c"," ","t","i","m","e","s">>,
    <<"d","e","c","c","a","n"," ","h","e","r","a","l","d">>,
    <<"t","h","e"," ","t","e","l","e","g","r","a","p","h"," ","i","n","d","i","a">>,
    <<"d","n","a"," ","i","n","d","i","a">>,
    <<"o","u","t","l","o","o","k"," ","i","n","d","i","a">>,
    <<"l","i","v","e","m","i","n","t">>,
    <<"n","e","w","s","1","8">>,
    <<"p","t","i">>,
    <<"d","i","n","a"," ","t","h","a","n","t","h","i">>,
    <<"d","i","n","a","m","a","l","a","r">>,
    <<"d","i","n","a","k","a","r","a","n">>,
    <<"m","a","a","l","a","i","m","a","l","a","r">>,
    <<"p","u","t","h","i","y","a"," ","t","h","a","l","a","i","m","u","r","a","i">>,
    <<"p","o","l","i","m","e","r"," ","n","e","w","s">>,
    <<"s","u","n"," ","t","v">>,
    <<"v","i","k","a","t","a","n">>,
    <<"a","n","a","n","d","a"," ","v","i","k","a","t","a","n">>,
    <<"m","a","l","a","y","a","l","a"," ","m","a","n","o","r","a","m","a">>,
    <<"m","a","t","h","r","u","b","h","u","m","i">>,
    <<"e","e","n","a","d","u">>,
    <<"s","a","k","s","h","i">>,
    <<"l","o","k","m","a","t">>,
    <<"g","u","j","a","r","a","t"," ","s","a","m","a","c","h","a","r">>,
    <<"r","a","j","a","s","t","h","a","n"," ","p","a","t","r","i","k","a">>,
    <<"p","u","n","j","a","b"," ","k","e","s","a","r","i">>,
    <<"b","b","c">>,
    <<"r","e","u","t","e","r","s">>,
    <<"a","p"," ","n","e","w","s">>,
    <<"a","s","s","o","c","i","a","t","e","d"," ","p","r","e","s","s">>,
    <<"t","h","e"," ","g","u","a","r","d","i","a","n">>,
    <<"c","n","n">>,
    <<"n","e","w"," ","y","o","r","k"," ","t","i","m","e","s">>,
    <<"w","a","s","h","i","n","g","t","o","n"," ","p","o","s","t">>,
    <<"t","h","e"," ","e","c","o","n","o","m","i","s","t">>,
    <<"f","i","n","a","n","c","i","a","l"," ","t","i","m","e","s">>,
    <<"w","a","l","l"," ","s","t","r","e","e","t"," ","j","o","u","r","n","a","l">>,
    <<"b","l","o","o","m","b","e","r","g">>,
    <<"a","l"," ","j","a","z","e","e","r","a">>,
    <<"s","k","y"," ","n","e","w","s">>,
    <<"a","b","c"," ","n","e","w","s">>,
    <<"c","b","s"," ","n","e","w","s">>,
    <<"n","b","c"," ","n","e","w","s">>,
    <<"f","o","x"," ","n","e","w","s">>,
    <<"n","a","t","u","r","e">>,
    <<"s","c","i","e","n","c","e"," ","m","a","g","a","z","i","n","e">>,
    <<"s","c","i","e","n","t","i","f","i","c"," ","a","m","e","r","i","c","a","n">>,
    <<"t","e","c","h","c","r","u","n","c","h">>,
    <<"w","i","r","e","d">>,
    <<"t","h","e"," ","v","e","r","g","e">>,
    <<"a","r","s"," ","t","e","c","h","n","i","c","a">>,
    <<"e","n","g","a","d","g","e","t">>,
    <<"c","n","e","t">>,
    <<"f","o","r","b","e","s">>,
    <<"f","o","r","t","u","n","e">>,
    <<"b","u","s","i","n","e","s","s"," ","i","n","s","i","d","e","r">>,
    <<"m","a","r","k","e","t","w","a","t","c","h">>,
    <<"y","a","h","o","o"," ","f","i","n","a","n","c","e">>,
    <<"c","n","b","c">>,
    <<"i","n","v","e","s","t","o","p","e","d","i","a">>
  >>

\* The allowlist of the remote-model revision, in list order.
trustedSourcesHF ==
  <<
    <<"t","h","e"," ","h","i","n","d","u">>,
    <<"t","i","m","e","s"," ","o","f"," ","i","n","d","i","a">>,
    <<"i","n","d","i","a","n"," ","e","x","p","r","e","s","s">>,
    <<"h","i","n","d","u","s","t","a","n"," ","t","i","m","e","s">>,
    <<"n","d","t","v">>,
    <<"b","u","s","i","n","e","s","s"," ","s","t","a","n","d","a","r","d">>,
    <<"m","i","n","t">>,
    <<"e","c","o","n","o","m","i","c"," ","t","i","m","e","s">>,
    <<"d","e","c","c","a","n"," ","h","e","r","a","l","d">>,
    <<"t","h","e"," ","t","e","l","e","g","r","a","p","h"," ","i","n","d","i","a">>,
    <<"d","n","a"," ","i","n","d","i","a">>,
    <<"o","u","t","l","o","o","k"," ","i","n","d","i","a">>,
    <<"l","i","v","e","m","i","n","t">>,
    <<"n","e","w","s","1","8">>,
    <<"p","t","i">>,
    <<"d","i","n","a"," ","t","h","a","n","t","h","i">>,
    <<"d","i","n","a","m","a","l","a","r">>,
    <<"d","i","n","a","k","a","r","a","n">>,
    <<"m","a","a","l","a","i","m","a","l","a","r">>,
    <<"p","u","t","h","i","y","a"," ","t","h","a","l","a","i","m","u","r","a","i">>,
    <<"p","o","l","i","m","e","r"," ","n","e","w","s">>,
    <<"s","u","n"," ","t","v">>,
    <<"v","i","k","a","t","a","n">>,
    <<"a","n","a","n","d","a"," ","v","i","k","a","t","a","n">>,
    <<"m","a","l","a","y","a","l","a"," ","m","a","n","o","r","a","m","a">>,
    <<"m","a","t","h","r","u","b","h","u","m","i">>,
    <<"e","e","n","a","d","u">>,
    <<"s","a","k","s","h","i">>,
    <<"l","o","k","m","a","t">>,
    <<"g","u","j","a","r","a","t"," ","s","a","m","a","c","h","a","r">>,
    <<"r","a","j","a","s","t","h","a","n"," ","p","a","t","r","i","k","a">>,
    <<"p","u","n","j","a","b"," ","k","e","s","a","r","i">>,
    <<"b","b","c">>,
    <<"r","e","u","t","e","r","s">>,
    <<"a","p"," ","n","e","w","s">>,
    <<"a","s","s","o","c","i","a","t","e","d"," ","p","r","e","s","s">>,
    <<"t","h","e"," ","g","u","a","r","d","i","a","n">>,
    <<"c","n","n">>,
    <<"n","e","w"," ","y","o","r","k"," ","t","i","m","e","s">>,
    <<"w","a","s","h","i","n","g","t","o","n"," ","p","o","s","t">>,
    <<"t","h","e"," ","e","c","o","n","o","m","i","s","t">>,
    <<"f","i","n","a","n","c","i","a","l"," ","t","i","m","e","s">>,
    <<"w","a","l","l"," ","s","t","r","e","e","t"," ","j","o","u","r","n","a","l">>,
    <<"b","l","o","o","m","b","e","r","g">>,
    <<"a","l"," ","j","a","z","e","e","r","a">>,
    <<"s","k","y"," ","n","e","w","s">>,
    <<"a","b","c"," ","n","e","w","s">>,
    <<"c","b","s"," ","n","e","w","s">>,
    <<"n","b","c"," ","n","e","w","s">>,
    <<"f","o","x"," ","n","e","w","s">>,
    <<"t","h","e"," ","t","i","m","e","s"," ","u","k">>,
    <<"t","h","e"," ","t","e","l","e","g","r","a","p","h"," ","u","k">>,
    <<"n","a","t","u","r","e">>,
    <<"s","c","i","e","n","c","e"," ","m","a","g","a","z","i","n","e">>,
    <<"s","c","i","e","n","t","i","f","i","c"," ","a","m","e","r","i","c","a","n">>,
    <<"t","e","c","h","c","r","u","n","c","h">>,
    <<"w","i","r","e","d">>,
    <<"t","h","e"," ","v","e","r","g","e">>,
    <<"a","r","s"," ","t","e","c","h","n","i","c","a">>,
    <<"e","n","g","a","d","g","e","t">>,
    <<"c","n","e","t">>,
    <<"f","o","r","b","e","s">>,
    <<"f","o","r","t","u","n","e">>,
    <<"b","u","s","i","n","e","s","s"," ","i","n","s","i","d","e","r">>,
    <<"m","a","r","k","e","t","w","a","t","c","h">>,
    <<"y","a","h","o","o"," ","f","i","n","a","n","c","e">>,
    <<"c","n","b","c">>,
    <<"i","n","v","e","s","t","o","p","e","d","i","a">>
  >>

(***************************************************************************)
(* JavaScript string operations.                                           *)
(***************************************************************************)
\* The characters \s matches (those the model's texts use).
WhiteSpace == {" ", "\n", "\t"}

IsWs(c) == c \in WhiteSpace

IsSpace(c) == c = " "

Space == {" "}

\* The class [.!?] of split(/[.!?]/).
SentenceEnd == {".", "!", "?"}

Indices(s) == [i \in 1..Len(s) |-> i]

\* String.prototype.trim
Trim(s) ==
  LET keep == SelectSeq(Indices(s), LAMBDA i : ~IsWs(s[i]))
  IN  IF keep = <<>> THEN <<>> ELSE SubSeq(s, Head(keep), keep[Len(keep)])

\* s.replace(/\s+/g, " "): every run of whitespace becomes one space.
CollapseWs(s) ==
  LET keep == SelectSeq(Indices(s),
                        LAMBDA i : ~IsWs(s[i]) \/ i = 1 \/ ~IsWs(s[i - 1]))
  IN  [k \in 1..Len(keep) |-> IF IsWs(s[keep[k]]) THEN " " ELSE s[keep[k]]]

\* Normalize without the final trim.
NormalizeUntrimmed(s) == CollapseWs(s)

\* s.replace(/\s+/g, " ").trim()
Normalize(s) == Trim(CollapseWs(s))

\* s.split(sep) for a one-character separator class: the pieces between the
\* separators, empty pieces included; "".split(sep) is [""].
SplitBy(s, sep) ==
  LET seps == SelectSeq(Indices(s), LAMBDA i : s[i] \in sep)
      n    == Len(seps)
  IN  [k \in 1..(n + 1) |->
         SubSeq(s, IF k = 1 THEN 1 ELSE seps[k - 1] + 1,
                   IF k = n + 1 THEN Len(s) ELSE seps[k] - 1)]

\* parts.join(sep)
RECURSIVE Join(_, _)
Join(parts, sep) ==
  IF parts = <<>> THEN <<>>
  ELSE IF Len(parts) = 1 THEN parts[1]
  ELSE LET h == Len(parts) \div 2
       IN  Join(SubSeq(parts, 1, h), sep) \o sep
             \o Join(SubSeq(parts, h + 1, Len(parts)), sep)

\* String.prototype.toLowerCase on the letters the model's texts use.
LowerOf(c) ==
  CASE c = "A" -> "a" [] c = "B" -> "b" [] c = "C" -> "c" [] c = "D" -> "d"
    [] c = "E" -> "e" [] c = "F" -> "f" [] c = "G" -> "g" [] c = "H" -> "h"
    [] c = "I" -> "i" [] c = "J" -> "j" [] c = "K" -> "k" [] c = "L" -> "l"
    [] c = "M" -> "m" [] c = "N" -> "n" [] c = "O" -> "o" [] c = "P" -> "p"
    [] c = "Q" -> "q" [] c = "R" -> "r" [] c = "S" -> "s" [] c = "T" -> "t"
    [] c = "U" -> "u" [] c = "V" -> "v" [] c = "W" -> "w" [] c = "X" -> "x"
    [] c = "Y" -> "y" [] c = "Z" -> "z" [] OTHER -> c

toLowerCase(s) == [i \in 1..Len(s) |-> LowerOf(s[i])]

\* String.prototype.includes
Includes(hay, needle) ==
  \E i \in 0..(Len(hay) - Len(needle)) :
     SubSeq(hay, i + 1, i + Len(needle)) = needle

\* Array.prototype.slice(from, to) with 0-based bounds inside 0..
Slice(a, from, to) ==
  SubSeq(a, from + 1, IF to < Len(a) THEN to ELSE Len(a))

Min(a, b) == IF a <= b THEN a ELSE b

(***************************************************************************)
(* The rule-based summarizer.                                              *)
(***************************************************************************)
\* text.split(/[.!?]/).map((s) => s.trim()).filter(Boolean)
Sentences(text) ==
  LET parts   == SplitBy(text, SentenceEnd)
      trimmed == [k \in 1..Len(parts) |-> Trim(parts[k])]
  IN  SelectSeq(trimmed, LAMBDA s : s # <<>>)

\* summaryIndices.map((i) => sentences[i]).join(". ") + "."
PickSentences(sentences, summaryIndices) ==
  Join([k \in 1..Len(summaryIndices) |-> sentences[summaryIndices[k] + 1]],
       <<".", " ">>) \o <<".">>

\* A rule-based summarizer that summarizes whatever the sentence count.
ruleBasedTextSummarizerNoThreshold(text) ==
  LET sentences == Sentences(text)
      n         == Len(sentences)
  IN  IF n = 0 THEN <<".">>
      ELSE PickSentences(sentences,
                         Slice(<<0, n \div 3, (2 * n) \div 3, n - 1>>, 0,
                               Min(4, n)))

\* summaryIndices with the two inner points rounded up.
summaryIndicesCeil(n) ==
  Slice(<<0, (n + 2) \div 3, (2 * n + 2) \div 3, n - 1>>, 0, Min(4, n))

\* openai.ts, both revisions: the four points picked among n sentences.
summaryIndices(n) ==
  Slice(<<0, n \div 3, (2 * n) \div 3, n - 1>>, 0, Min(4, n))

\* part_001: the three points picked among n sentences.
summaryIndicesHF(n) ==
  Slice(<<0, n \div 2, n - 1>>, 0, Min(3, n))

\* openai.ts, both revisions: four points, threshold 3.
ruleBasedTextSummarizer(text) ==
  LET sentences == Sentences(text)
      n         == Len(sentences)
  IN  IF n <= 3 THEN text ELSE PickSentences(sentences, summaryIndices(n))

\* part_001: three points, threshold 2.
ruleBasedTextSummarizerHF(text) ==
  LET sentences == Sentences(text)
      n         == Len(sentences)
  IN  IF n <= 2 THEN text ELSE PickSentences(sentences, summaryIndicesHF(n))

(***************************************************************************)
(* Requests.                                                               *)
(***************************************************************************)
Impls == {"pdflib", "pdfco", "hf"}

Kinds == {"text", "link", "youtube", "pdf"}

StringInput(s) == [type |-> "string", chars |-> s, doc |-> "none"]

\* A Buffer, known by what the document backend makes of its bytes.
BufferInput(d) == [type |-> "buffer", chars |-> <<>>, doc |-> d]

\* n >= 1 one-letter words separated by single spaces; the letters cycle, so
\* that windows of the text differ.
WordAt(i) == <<"a", "b", "c">>[(i % 3) + 1]

WordsText(n) ==
  [k \in 1..(2 * n - 1) |-> IF k % 2 = 0 THEN " " ELSE WordAt((k + 1) \div 2)]

\* "A. B. C. D. E."
TextFive ==
  <<"A","."," ","B","."," ","C","."," ","D","."," ","E",".">>

\* " a  b\n c "
TextUntidy ==
  <<" ","a"," "," ","b","\n"," ","c"," ">>

ShortTexts ==
  { <<>>, <<" ", "\n", " ">>, <<".", ".", ".">>, TextFive, TextUntidy,
    <<"H","i","!"," ","O","k","?"," ","N","o",".">> }

Returned(v) == [status |-> "returned", value |-> v]

Thrown == [status |-> "thrown", value |-> <<>>]

NoResult == [status |-> "none", value |-> <<>>]

NoVerdict == [isReal |-> "none", confidence |-> "none", reasoning |-> "none"]

(***************************************************************************)
(* hfSummarize (part_001).                                                 *)
(***************************************************************************)
chunkSize == 500

\* ChunkTexts with windows that run one word into the next window.
ChunkTextsOverlap(cleaned) ==
  LET words == SplitBy(cleaned, Space)
      k     == (Len(words) + chunkSize - 1) \div chunkSize
      all   == [j \in 1..k |->
                  Trim(Join(Slice(words, (j - 1) * chunkSize,
                                  j * chunkSize + 1), <<" ">>))]
  IN  SelectSeq(all, LAMBDA c : Len(c) > 0)

\* ChunkTexts with a loop that steps over one word after each window.
ChunkTextsStride(cleaned) ==
  LET words == SplitBy(cleaned, Space)
      k     == (Len(words) + chunkSize) \div (chunkSize + 1)
      all   == [j \in 1..k |->
                  Trim(Join(Slice(words, (j - 1) * (chunkSize + 1),
                                  (j - 1) * (chunkSize + 1) + chunkSize),
                            <<" ">>))]
  IN  SelectSeq(all, LAMBDA c : Len(c) > 0)

\* Lines 38-45: the words of `cleaned`, cut into windows of chunkSize words.
ChunkTexts(cleaned) ==
  LET words == SplitBy(cleaned, Space)
      k     == (Len(words) + chunkSize - 1) \div chunkSize
      all   == [j \in 1..k |->
                  Trim(Join(Slice(words, (j - 1) * chunkSize, j * chunkSize),
                            <<" ">>))]
  IN  SelectSeq(all, LAMBDA c : Len(c) > 0)

\* Lines 63-72: the entry pushed to `summaries` for response.data.
SummaryEntry(data) ==
  IF data.shape = "array" /\ data.summary_text # <<>> THEN data.summary_text
  ELSE IF data.shape = "object" /\ data.summary_text # <<>>
       THEN data.summary_text
  ELSE IF data.shape = "object" /\ data.error # <<>>
       THEN ChunkFailedPrefix \o data.error \o <<")">>
  ELSE ChunkFailedUnknown

\* Which branch of lines 64-72 response.data takes.
ReplyClass(data) ==
  IF data.shape \in {"array", "object"} /\ data.summary_text # <<>>
    THEN "summary"
  ELSE IF data.shape = "object" /\ data.error # <<>> THEN "error"
  ELSE "unknown"

\* Merged with the entries taken last to first.
MergedReversed(sums) ==
  Join([i \in 1..Len(sums) |-> sums[Len(sums) + 1 - i]], <<" ">>)

\* Line 76.
Merged(sums) == Join(sums, <<" ">>)

\* Line 77: merged.split(" ").length
SplitLength(s) == Len(SplitBy(s, Space))

\* Lines 82-85: the catch block of hfSummarize.
HfCatch == Returned(MsgAIUnavailable)

\* HfOutcome without line 78: the merged summaries are returned as they are.
HfOutcomeNoRecursion(sums) ==
  IF Len(sums) > 1
    THEN [recurse |-> FALSE, value |-> Merged(sums)]
    ELSE [recurse |-> FALSE,
          value |-> IF sums # <<>> /\ sums[1] # <<>>
                      THEN sums[1] ELSE MsgSummarizationFailed]

\* HfOutcome with a single entry treated like a merge: an entry of more than
\* chunkSize words is handed to hfSummarize again.
HfOutcomeSingleMerged(sums) ==
  IF Len(sums) >= 1 /\ sums[1] # <<>>
    THEN IF SplitLength(Merged(sums)) <= chunkSize
           THEN [recurse |-> FALSE, value |-> Merged(sums)]
           ELSE [recurse |-> TRUE, value |-> Merged(sums)]
    ELSE [recurse |-> FALSE, value |-> MsgSummarizationFailed]

\* Lines 75-81: what hfSummarize does once the loop is over: the value it
\* returns, or the text it calls itself with.
HfOutcome(sums) ==
  IF Len(sums) > 1
    THEN IF SplitLength(Merged(sums)) <= chunkSize
           THEN [recurse |-> FALSE, value |-> Merged(sums)]
           ELSE [recurse |-> TRUE, value |-> Merged(sums)]
    ELSE [recurse |-> FALSE,
          value |-> IF sums # <<>> /\ sums[1] # <<>>
                      THEN sums[1] ELSE MsgSummarizationFailed]

\* What the summarization backend may answer to a call for `chunk`.
ShortLen == 2

ShortSummary(chunk) ==
  Join(Slice(SplitBy(chunk, Space), 0, ShortLen), <<" ">>)

\* "Model loading"
ErrLoading ==
  <<"M","o","d","e","l"," ","l","o","a","d","i","n","g">>

\* "Busy"
ErrBusy ==
  <<"B","u","s","y">>

\* The error texts the summarization backend may report.
BackendErrors == {ErrLoading, ErrBusy}

\* The longest chunk, in characters, that the backend answers with either
\* error text; a longer chunk gets the first text only.
MaxBusyLen == 20

ErrorsFor(chunk) ==
  IF Len(chunk) <= MaxBusyLen THEN BackendErrors ELSE {ErrLoading}

Data(shape, s, e) == [shape |-> shape, summary_text |-> s, error |-> e]

\* A summary of one word more than a chunk holds; the backend may give it
\* for the text TextFive.
LongSummary == WordsText(chunkSize + 1)

HfResponses(chunk) ==
  { Data("array", ShortSummary(chunk), <<>>),
    Data("array", chunk, <<>>),
    Data("object", ShortSummary(chunk), <<>>),
    Data("other", <<>>, <<>>) }
  \cup { Data("object", <<>>, e) : e \in ErrorsFor(chunk) }
  \cup (IF chunk = TextFive THEN {Data("array", LongSummary, <<>>)} ELSE {})

(***************************************************************************)
(* summarizeText: the collaborators and the helpers of its branches.       *)
(***************************************************************************)
\* A catch block that passes the exception on.
SummarizeCatchRethrows == Thrown

\* Lines 102-105 (openai.ts), 169-172 (part_001): the catch block.
SummarizeCatch == Returned(MsgInternalError)

\* The strategy a revision summarizes extracted text with.
Strategy(i) == IF i = "hf" THEN "hf" ELSE "rule"

\* input.match(re) for re = /<prefix>([^<stop>]+)/: the leftmost place where
\* prefix is followed by a character outside stop; the group runs on to the
\* next stop character.
MatchGroup(s, prefix, stop) ==
  LET p      == Len(prefix)
      starts == {i \in 1..Len(s) :
                   /\ i + p <= Len(s)
                   /\ SubSeq(s, i, i + p - 1) = prefix
                   /\ s[i + p] \notin stop}
  IN  IF starts = {} THEN [matched |-> FALSE, group |-> <<>>]
      ELSE LET i == CHOOSE a \in starts : \A b \in starts : a <= b
               e == CHOOSE a \in (i + p)..Len(s) :
                      /\ \A k \in (i + p)..a : s[k] \notin stop
                      /\ a = Len(s) \/ s[a + 1] \in stop
           IN  [matched |-> TRUE, group |-> SubSeq(s, i + p, e)]

Amp == {"&"}

AmpOrQuery == {"&", "?"}

\* input.match(/v=([^&]+)/) || input.match(/youtu\.be\/([^?&]+)/)
videoIdMatch(s) ==
  LET q == MatchGroup(s, <<"v", "=">>, Amp)
  IN  IF q.matched THEN q
      ELSE MatchGroup(s, <<"y","o","u","t","u",".","b","e","/">>, AmpOrQuery)

\* `${title}. ${description}`
VideoText(title, description) == title \o <<".", " ">> \o description

\* response.data.replace(/<[^>]*>/g, " ")
RECURSIVE StripTags(_)
StripTags(s) ==
  IF s = <<>> THEN <<>>
  ELSE LET closes == {j \in 2..Len(s) : s[j] = ">"}
       IN  IF Head(s) = "<" /\ closes # {}
             THEN LET j == CHOOSE a \in closes : \A b \in closes : a <= b
                  IN  <<" ">> \o StripTags(SubSeq(s, j + 1, Len(s)))
             ELSE <<Head(s)>> \o StripTags(Tail(s))

\* Lines 51-57 (pdf-lib), 229-233 (PDF.co): what readPdfContent returns for
\* what the document backend delivered.
readPdfContent(i, doc) ==
  IF doc.status = "throw"
    THEN IF i = "pdflib" THEN MsgPdfReadFailed ELSE MsgPdfCoReadFailed
  ELSE IF i = "pdflib"
    THEN IF Trim(doc.text) = <<>> THEN MsgPdfNoTextRead
         ELSE Normalize(doc.text)
  ELSE IF doc.text = <<>> THEN MsgPdfNoTextRead
       ELSE Normalize(doc.text)

\* Lines 71-72, 247-248: summarizeText once readPdfContent has returned.
PdfSummary(text) ==
  IF text = <<>> \/ Len(Trim(text)) = 0 THEN MsgPdfNoTextExtracted
  ELSE ruleBasedTextSummarizer(text)

\* The strategies PdfSummary invokes.
PdfStrategies(text) ==
  IF text = <<>> \/ Len(Trim(text)) = 0 THEN {} ELSE {"rule"}

\* What the document backend makes of the bytes.
DocReply(status, text) == [status |-> status, text |-> text]

PageOne ==
  TextFive \o <<"\n">>

DocReplies(i, in) ==
  LET d == IF in.type = "buffer" THEN in.doc ELSE "garbage"
  IN  (IF d = "garbage" \/ i = "pdfco" THEN {DocReply("throw", <<>>)} ELSE {})
      \cup (IF d = "scanned" \/ (d = "garbage" /\ i = "pdfco")
              THEN {DocReply("ok", <<>>)} ELSE {})
      \cup (IF d = "scanned" THEN {DocReply("ok", <<"\n", " ", "\n">>)} ELSE {})
      \cup (IF d = "text" THEN {DocReply("ok", PageOne)} ELSE {})

\* How extraction of a document ended.
DocExtract(doc) ==
  IF doc.status = "throw" THEN "unreadable"
  ELSE IF Normalize(doc.text) = <<>> THEN "empty" ELSE "ok"

\* document.body.innerText of the pages the model visits.
PageTexts == { <<>>, <<" ", "\n">>, TextFive, TextUntidy }

\* How extraction of a page ended.
PageExtract(text) == IF Normalize(text) = <<>> THEN "empty" ELSE "ok"

\* "<p>A. B. C. D. E.</p>"
HtmlFive ==
  <<"<","p",">">> \o TextFive \o <<"<","/","p",">">>

\* The markup the scraping service returns.
HtmlPages == { <<>>, <<"<","b","r",">">>, HtmlFive, <<"a","<","b">> }

\* The reply of the video catalog: response.data.
Catalog(items, title, description) ==
  [items |-> items, title |-> title, description |-> description]

\* "Talk"
TitleTalk == <<"T","a","l","k">>

CatalogReplies ==
  { Catalog("missing", <<>>, <<>>), Catalog("empty", <<>>, <<>>),
    Catalog("nosnippet", <<>>, <<>>), Catalog("snippet", <<>>, <<>>),
    Catalog("snippet", TitleTalk, TextFive),
    Catalog("snippet", TitleTalk, <<" ", "\n">>) }

\* Video references.
\* "youtu.be/x1"
RefShort == <<"y","o","u","t","u",".","b","e","/","x","1">>

\* "watch?v=x1&t=2"
RefQuery == <<"w","a","t","c","h","?","v","=","x","1","&","t","=","2">>

\* "example.com/x1"
RefOther == <<"e","x","a","m","p","l","e",".","c","o","m","/","x","1">>

\* "watch?v=&t=2"
RefNoId == <<"w","a","t","c","h","?","v","=","&","t","=","2">>

VideoRefs == { RefShort, RefQuery, RefOther, RefNoId, <<>> }

\* The sizes, in words, of the long texts.
LongSizes ==
  { chunkSize - 1, chunkSize, chunkSize + 1, 2 * chunkSize + 1, MaxWords }

TextInputs ==
  {StringInput(s) : s \in ShortTexts}
    \cup {StringInput(WordsText(n)) : n \in LongSizes}

Inputs(i, k) ==
  CASE k = "text" ->
         (IF i = "hf" THEN TextInputs ELSE {StringInput(s) : s \in ShortTexts})
           \cup {BufferInput("text")}
    [] k = "link" -> {StringInput(RefOther), StringInput(<<>>)}
    [] k = "youtube" -> {StringInput(s) : s \in VideoRefs}
    [] k = "pdf" ->
         {BufferInput(d) : d \in {"garbage", "scanned", "text"}}
           \cup {StringInput(<<>>)}

(***************************************************************************)
(* detectFakeNews.                                                         *)
(***************************************************************************)
\* A JSON scalar as JavaScript sees it; numbers count hundredths (0.95 is 95).
Scalar(t, b, n, s) == [t |-> t, b |-> b, n |-> n, s |-> s]

JMissing == Scalar("missing", FALSE, 0, <<>>)

JNull == Scalar("null", FALSE, 0, <<>>)

JNaN == Scalar("nan", FALSE, 0, <<>>)

JBool(b) == Scalar("bool", b, 0, <<>>)

JNum(n) == Scalar("num", FALSE, n, <<>>)

JStr(s) == Scalar("str", FALSE, 0, s)

\* A parsed JSON value: an object with the three fields (any of them may be
\* missing), or a value of another type, which has none of them.
JValue(t, isReal, confidence, reasoning) ==
  [t |-> t, isReal |-> isReal, confidence |-> confidence,
   reasoning |-> reasoning]

JObject(isReal, confidence, reasoning) ==
  JValue("object", isReal, confidence, reasoning)

JOther(t) == JValue(t, JMissing, JMissing, JMissing)

Verdict(isReal, confidence, reasoning) ==
  [isReal |-> isReal, confidence |-> confidence, reasoning |-> reasoning]

\* FirstTrusted with the last entry found winning.
FirstTrustedLast(list, lowerText) ==
  LET hits == {k \in 1..Len(list) : Includes(lowerText, list[k])}
  IN  IF hits = {} THEN 0
      ELSE CHOOSE k \in hits : \A j \in hits : k >= j

\* The position of the first entry of the list that lowerText includes, or 0:
\* the loop of lines 145-147 (openai.ts), 214-218 (part_001).
FirstTrusted(list, lowerText) ==
  LET hits == {k \in 1..Len(list) : Includes(lowerText, list[k])}
  IN  IF hits = {} THEN 0
      ELSE CHOOSE k \in hits : \A j \in hits : k <= j

\* The allowlist of a revision.
TrustedList(i) == IF i = "hf" THEN trustedSourcesHF ELSE trustedSources

\* The allowlist matched against the text as it came.
lowerTextRaw(text) == text

\* Line 143 (openai.ts), 213 (part_001): the text the allowlist is matched
\* against.
lowerText(text) == toLowerCase(text)

\* The verdict of an allowlist hit.
TrustedVerdict(i, src) ==
  IF i = "pdfco"
    THEN Verdict(JBool(TRUE), JMissing, JStr(ReasonTrustedPrefixPdfCo \o src))
    ELSE Verdict(JBool(TRUE), JNum(95), JStr(ReasonTrustedPrefix \o src))

\* HeuristicVerdict with the length looked at before the words.
HeuristicVerdictLengthFirst(lower) ==
  IF Len(lower) < 100
    THEN Verdict(JBool(FALSE), JNum(40), JStr(ReasonTooShort))
  ELSE IF Includes(lower, WordShocking) \/ Includes(lower, WordBreaking)
       \/ Includes(lower, WordMiracle)
    THEN Verdict(JBool(FALSE), JNum(30), JStr(ReasonSensational))
  ELSE Verdict(JBool(FALSE), JNum(50), JStr(ReasonNotVerified))

\* openai.ts lines 149-154: the lexical heuristics.
HeuristicVerdict(lower) ==
  IF Includes(lower, WordShocking) \/ Includes(lower, WordBreaking)
       \/ Includes(lower, WordMiracle)
    THEN Verdict(JBool(FALSE), JNum(30), JStr(ReasonSensational))
  ELSE IF Len(lower) < 100
    THEN Verdict(JBool(FALSE), JNum(40), JStr(ReasonTooShort))
  ELSE Verdict(JBool(FALSE), JNum(50), JStr(ReasonNotVerified))

\* openai.ts line 320.
NotFoundVerdict == Verdict(JBool(FALSE), JMissing, JStr(ReasonNotFound))

\* part_001 line 241: the catch block.
DetectCatch == Verdict(JBool(FALSE), JNum(30), JStr(ReasonUnavailable))

\* The reply text is a sequence of lexical pieces: the code-fence markers
\* ```json and ```, whitespace, the text of one JSON value, other text.
Piece(tok, val) == [tok |-> tok, val |-> val]

FenceJson == Piece("fence_json", JOther("null"))

Fence == Piece("fence", JOther("null"))

Blank == Piece("ws", JOther("null"))

Junk == Piece("junk", JOther("null"))

Json(v) == Piece("json", v)

\* Line 230: content || "{}"
RawOf(content) ==
  IF content = <<>> THEN <<Json(JObject(JMissing, JMissing, JMissing))>>
  ELSE content

\* Line 231: raw.replace(/```json/g, "").replace(/```/g, "").trim()
jsonString(raw) ==
  LET bare == SelectSeq(raw, LAMBDA p : p.tok \notin {"fence_json", "fence"})
      keep == SelectSeq(Indices(bare), LAMBDA i : bare[i].tok # "ws")
  IN  IF keep = <<>> THEN <<>>
      ELSE SubSeq(bare, Head(keep), keep[Len(keep)])

\* Line 232: JSON.parse takes the text of exactly one value (jsonString has
\* no whitespace around it left).
ParseOk(str) == Len(str) = 1 /\ str[1].tok = "json"

\* result.confidence ?? 0.5, then Math.min(Math.max(., 0), 1)
ClampConfidence(c) ==
  IF c.t \in {"missing", "null"} THEN JNum(50)
  ELSE IF c.t = "num"
    THEN JNum(IF c.n < 0 THEN 0 ELSE IF c.n > 100 THEN 100 ELSE c.n)
  ELSE IF c.t = "bool" THEN JNum(IF c.b THEN 100 ELSE 0)
  ELSE JNaN

\* result.reasoning?.slice(0, 500) ?? "Analysis unavailable"
SliceReasoning(r) ==
  IF r.t \in {"missing", "null"} THEN JStr(ReasonDefault)
  ELSE JStr(SubSeq(r.s, 1, Min(500, Len(r.s))))

\* Lines 234-238 raise a TypeError: a field of null is read, or slice is
\* called on a number or a boolean.
FieldsThrow(v) == v.t = "null" \/ v.reasoning.t \in {"num", "bool"}

\* Lines 234-238: the object returned for the parsed value.
ParsedVerdict(v) ==
  Verdict(IF v.isReal.t \in {"missing", "null"} THEN JBool(FALSE)
          ELSE v.isReal,
          ClampConfidence(v.confidence),
          SliceReasoning(v.reasoning))

\* ReplyVerdict with a catch block that answers with the defaults of the fields.
ReplyVerdictDefaults(content) ==
  LET str == jsonString(RawOf(content))
  IN  IF ~ParseOk(str) \/ FieldsThrow(str[1].val)
        THEN Verdict(JBool(FALSE), JNum(50), JStr(ReasonDefault))
        ELSE ParsedVerdict(str[1].val)

\* Lines 230-242: the verdict for a reply that arrived.
ReplyVerdict(content) ==
  LET str == jsonString(RawOf(content))
  IN  IF ~ParseOk(str) \/ FieldsThrow(str[1].val) THEN DetectCatch
      ELSE ParsedVerdict(str[1].val)

\* "ok"
ReasonShort == <<"o", "k">>

\* A reasoning of ReasonLong characters.
ReasonLong == 501

LongReasoning == [i \in 1..ReasonLong |-> "x"]

IsRealFields == {JMissing, JBool(TRUE), JBool(FALSE), JStr(<<"y","e","s">>)}

ConfidenceFields ==
  {JMissing, JNull, JNum(70), JNum(150), JNum(0 - 20), JStr(<<"h","i">>)}

ReasoningFields ==
  {JMissing, JNull, JStr(ReasonShort), JStr(LongReasoning), JNum(5)}

JsonObjects ==
  {JObject(a, b, c) :
     a \in IsRealFields, b \in ConfidenceFields, c \in ReasoningFields}

\* completion.choices?.[0]?.message?.content of the replies the model sees.
Contents ==
  { <<>>, <<Blank>>, <<Junk>>, <<Json(JOther("null"))>>,
    <<Json(JOther("num"))>>,
    <<Junk, Json(JObject(JBool(TRUE), JNum(70), JStr(ReasonShort)))>>,
    <<FenceJson, Blank,
      Json(JObject(JBool(TRUE), JNum(70), JStr(ReasonShort))), Blank, Fence>> }
    \cup {<<Json(v)>> : v \in JsonObjects}

\* The texts detectFakeNews is called with.
UpperOf(c) ==
  CASE c = "a" -> "A" [] c = "b" -> "B" [] c = "c" -> "C" [] c = "d" -> "D"
    [] c = "e" -> "E" [] c = "f" -> "F" [] c = "g" -> "G" [] c = "h" -> "H"
    [] c = "i" -> "I" [] c = "j" -> "J" [] c = "k" -> "K" [] c = "l" -> "L"
    [] c = "m" -> "M" [] c = "n" -> "N" [] c = "o" -> "O" [] c = "p" -> "P"
    [] c = "q" -> "Q" [] c = "r" -> "R" [] c = "s" -> "S" [] c = "t" -> "T"
    [] c = "u" -> "U" [] c = "v" -> "V" [] c = "w" -> "W" [] c = "x" -> "X"
    [] c = "y" -> "Y" [] c = "z" -> "Z" [] OTHER -> c

Capitalized(s) == [i \in 1..Len(s) |-> IF i = 1 THEN UpperOf(s[i]) ELSE s[i]]

UpperCased(s) == [i \in 1..Len(s) |-> UpperOf(s[i])]

\* "as reported by "
LeadIn ==
  <<"a","s"," ","r","e","p","o","r","t","e","d"," ","b","y"," ">>

\* " today"
LeadOut == <<" ","t","o","d","a","y">>

\* "SHOCKING cure!"
TextShocking ==
  <<"S","H","O","C","K","I","N","G"," ","c","u","r","e","!">>

\* A text of PlainLong characters that names no source.
PlainLong == 100

TextPlainLong == [i \in 1..PlainLong |-> IF i % 7 = 0 THEN " " ELSE "z"]

\* TextPlainLong without its last character.
TextPlainShorter == SubSeq(TextPlainLong, 1, PlainLong - 1)

\* "A Miracle" and then TextPlainLong.
TextMiracleLong ==
  <<"A"," ","M","i","r","a","c","l","e"," ">> \o TextPlainLong

Mentions ==
  {pre \o f \o suf :
     pre \in {<<>>, LeadIn}, suf \in {<<>>, LeadOut},
     f \in UNION {{trustedSourcesHF[k], Capitalized(trustedSourcesHF[k]),
                   UpperCased(trustedSourcesHF[k])} :
                    k \in 1..Len(trustedSourcesHF)}}

\* "Reuters and BBC"
TextTwoSources ==
  <<"R","e","u","t","e","r","s"," ","a","n","d"," ","B","B","C">>

DetectTexts ==
  Mentions \cup ShortTexts
    \cup {TextShocking, TextPlainLong, LeadIn \o LeadOut, TextTwoSources,
          TextPlainShorter, TextMiracleLong}
(***************************************************************************)
(* ruleBasedTextSummarizer called on its own, and chatWithAI.              *)
(***************************************************************************)
\* Most sentences in a text handed to the rule-based summarizer.
MaxSentences == 7

\* n one-letter sentences, each closed by a full stop: "a. b. c."
SpreadText(n) ==
  Join([k \in 1..n |-> <<WordAt(k), ".">>], <<" ">>)

\* n one-letter sentences with "!" between them and no blank: "a!b!c"
TightText(n) ==
  Join([k \in 1..n |-> <<WordAt(k)>>], <<"!">>)

\* n sentences of two words, with blanks of several kinds around them:
\* " a b ?\n a b ?"
LooseText(n) ==
  Join([k \in 1..n |-> <<" ", "a", " ", "b", " ", "?">>], <<"\n">>)

\* The texts ruleBasedTextSummarizer is called with.
RuleTexts ==
  ShortTexts
    \cup {SpreadText(n) : n \in 1..MaxSentences}
    \cup {TightText(n) : n \in 1..MaxSentences}
    \cup {LooseText(n) : n \in 1..MaxSentences}

\* "AI returned an empty response."
MsgEmptyResponse ==
  <<"A", "I", " ", "r", "e", "t", "u", "r", "n", "e", "d", " ", "a", "n",
    " ", "e", "m", "p", "t", "y", " ", "r", "e", "s", "p", "o", "n", "s",
    "e", ".">>

\* "AI chat model unavailable. Check your API key."
MsgChatUnavailable ==
  <<"A", "I", " ", "c", "h", "a", "t", " ", "m", "o", "d", "e", "l", " ",
    "u", "n", "a", "v", "a", "i", "l", "a", "b", "l", "e", ".", " ", "C",
    "h", "e", "c", "k", " ", "y", "o", "u", "r", " ", "A", "P", "I", " ",
    "k", "e", "y", ".">>

\* "AI chat model unavailable. Check your Hugging Face OpenRouter API key and model."
MsgChatUnavailableHF ==
  <<"A", "I", " ", "c", "h", "a", "t", " ", "m", "o", "d", "e", "l", " ",
    "u", "n", "a", "v", "a", "i", "l", "a", "b", "l", "e", ".", " ", "C",
    "h", "e", "c", "k", " ", "y", "o", "u", "r", " ", "H", "u", "g", "g",
    "i", "n", "g", " ", "F", "a", "c", "e", " ", "O", "p", "e", "n", "R",
    "o", "u", "t", "e", "r", " ", "A", "P", "I", " ", "k", "e", "y", " ",
    "a", "n", "d", " ", "m", "o", "d", "e", "l", ".">>

\* "Context: "
ContextPrefix ==
  <<"C", "o", "n", "t", "e", "x", "t", ":", " ">>

\* "\nUser: "
UserPrefix ==
  <<"\n", "U", "s", "e", "r", ":", " ">>

\* " Hello there. \n"
TextHello ==
  <<" ", "H", "e", "l", "l", "o", " ", "t", "h", "e", "r", "e", ".", " ",
    "\n">>

\* The optional `context` argument.
NoContext == [given |-> FALSE, chars |-> <<>>]

Context(s) == [given |-> TRUE, chars |-> s]

ChatContexts == {NoContext, Context(<<>>), Context(TextFive)}

\* context ? `Context: ${context}\nUser: ${message}` : message
UserContent(message, context) ==
  IF context.given /\ context.chars # <<>>
    THEN ContextPrefix \o context.chars \o UserPrefix \o message
    ELSE message

\* completion.choices?.[0]?.message?.content of the reply: absent (no choice,
\* no message, null content), a string, or a value that is no string.
ChatReply(is, text) == [is |-> is, text |-> text]

NoReply == ChatReply("none", <<>>)

ChatReplies ==
  {ChatReply("absent", <<>>), ChatReply("other", <<>>)}
    \cup {ChatReply("string", s) :
            s \in {<<>>, <<" ", "\n", "\t">>, TextHello, TextFive}}

ChatMessages == {<<>>, TextFive}

\* The catch block of chatWithAI.
ChatCatch(i) ==
  Returned(IF i = "hf" THEN MsgChatUnavailableHF ELSE MsgChatUnavailable)

\* ChatAnswer with the reply text handed back as it came.
ChatAnswerUntrimmed(i, r) ==
  IF r.is = "other" THEN ChatCatch(i)
  ELSE IF r.is = "absent" \/ r.text = <<>> THEN Returned(MsgEmptyResponse)
  ELSE Returned(r.text)

\* content?.trim() || "AI returned an empty response.", and the TypeError of
\* calling trim on a value that has none.
ChatAnswer(i, r) ==
  IF r.is = "other" THEN ChatCatch(i)
  ELSE IF r.is = "absent" \/ Trim(r.text) = <<>>
    THEN Returned(MsgEmptyResponse)
  ELSE Returned(Trim(r.text))

(***************************************************************************)
(* The time limits of the outbound calls.                                  *)
(***************************************************************************)
\* page.goto(input, { ..., timeout: 60000 })
GotoTimeout == 60000

\* axios.get(url, { timeout: 15000 })
CatalogTimeout == 15000

\* The `timeout` option, in milliseconds, of the call revision i awaits at
\* position p; 0 when the call is made without one.
CallTimeout(i, p) ==
  CASE p = "link_goto" -> GotoTimeout
    [] p = "yt_lookup" -> IF i = "hf" THEN CatalogTimeout ELSE 0
    [] OTHER -> 0


(***************************************************************************)
(* The route POST /api/summarize/url and the summarizer page.              *)
(***************************************************************************)
\* The route's revision, the address asked for, and the response sent.
RouteState(rev, link, status, message) ==
  [rev |-> rev, link |-> link, status |-> status, message |-> message]

\* summarizeText was not called through the route.
NoRoute == RouteState("none", <<>>, 0, "")

\* A request has reached revision rev of the route.
Route(rev) == RouteState(rev, <<>>, 0, "")

\* req.body.url of the requests the model sends.
RouteUrls ==
  { <<>>, <<" ">>, RefOther, <<" ">> \o RefOther \o <<"\n">> }

\* The first match of <name[^>]*>.*?</name> in s with the flag s, as the
\* positions of its first and last character; <<0, 0>> when there is none.
ElementMatch(s, name) ==
  LET open  == <<"<">> \o name
      close == <<"<", "/">> \o name \o <<">">>
      Opens(i)  == {j \in (i + Len(open))..Len(s) : s[j] = ">"}
      Closes(j) == {k \in (j + 1)..(Len(s) - Len(close) + 1) :
                      SubSeq(s, k, k + Len(close) - 1) = close}
      First(S)  == CHOOSE a \in S : \A b \in S : a <= b
      starts == {i \in 1..Len(s) :
                   /\ i + Len(open) - 1 <= Len(s)
                   /\ SubSeq(s, i, i + Len(open) - 1) = open
                   /\ Opens(i) # {}
                   /\ Closes(First(Opens(i))) # {}}
  IN  IF starts = {} THEN <<0, 0>>
      ELSE <<First(starts),
             First(Closes(First(Opens(First(starts))))) + Len(close) - 1>>

\* s.replace(/<name[^>]*>.*?<\/name>/gs, "")
RECURSIVE StripElement(_, _)
StripElement(s, name) ==
  LET m == ElementMatch(s, name)
  IN  IF m[1] = 0 THEN s
      ELSE SubSeq(s, 1, m[1] - 1)
             \o StripElement(SubSeq(s, m[2] + 1, Len(s)), name)

\* s.replace(/<[^>]+>/g, " "): a tag holds at least one character.
RECURSIVE StripTagsNonEmpty(_)
StripTagsNonEmpty(s) ==
  IF s = <<>> THEN <<>>
  ELSE LET closes == {j \in 2..Len(s) : s[j] = ">"}
           j      == CHOOSE a \in closes : \A b \in closes : a <= b
       IN  IF Head(s) = "<" /\ closes # {} /\ j > 2
             THEN <<" ">> \o StripTagsNonEmpty(SubSeq(s, j + 1, Len(s)))
             ELSE <<Head(s)>> \o StripTagsNonEmpty(Tail(s))

\* routes.ts lines 86-91: the text the route makes of the page it fetched.
RouteText(html) ==
  Normalize(StripTagsNonEmpty(
    StripElement(StripElement(html, <<"s","c","r","i","p","t">>),
                 <<"s","t","y","l","e">>)))

\* "<script>x</script>" and then HtmlFive
HtmlScripted ==
  <<"<","s","c","r","i","p","t",">","x","<","/","s","c","r","i","p","t",">">>
    \o HtmlFive

\* What the route's own fetch of the address gets.
RoutePages == {<<>>, HtmlFive, HtmlScripted, <<"a","<",">","b">>}

\* The state of the component: inputText, summary, errorMsg, loading and
\* pdfUploaded, and the title of the last toast shown.
UiState(inputText, summary, errorMsg, loading, pdfUploaded, toast) ==
  [inputText |-> inputText, summary |-> summary, errorMsg |-> errorMsg,
   loading |-> loading, pdfUploaded |-> pdfUploaded, toast |-> toast]

\* summarizer.tsx lines 15-21: the initial values of useState.
FirstRender == UiState(<<>>, <<>>, "", FALSE, FALSE, "")

\* The requests of the page that await their answer: those of
\* handleSummarize, the files handlePdfUpload is reading, and its uploads.
Calls(s, r, u) == [summarize |-> s, reading |-> r, upload |-> u]

NoCalls == Calls(0, 0, 0)

\* Most handler runs of the page that await something at one time.
MaxRequests == 2

Awaiting == calls.summarize + calls.reading + calls.upload

\* What the user may type into the text area.
TypedTexts == {<<>>, <<" ">>, RefOther}

\* data of the answers to handleSummarize's request: summary and error.
Answer(summary, error) == [summary |-> summary, error |-> error]

SummarizeAnswers ==
  { Answer(TitleTalk, ""), Answer(<<" ">>, ""), Answer(<<>>, "Busy"),
    Answer(<<>>, "") }

\* Line 174: disabled={loading || !inputText.trim()}
GenerateEnabled == ~ui.loading /\ Trim(ui.inputText) # <<>>

(***************************************************************************)
(* The state machine of one request.                                       *)
(***************************************************************************)
reqVars == <<op, impl, kind, input>>

hfVars == <<hfText, chunks, summaries, inflight, posts, replies, pass>>

linkVars == <<browser, page, videoId>>

detectVars == <<verdict, classifyCalls, reply>>

chatVars == <<chatCalls, chatSent, chatReply>>

webVars == <<route, ui, calls>>

Init ==
  /\ op \in {"summarize", "detect", "rule", "chat", "url", "page"}
  /\ impl \in Impls
  /\ \/ /\ op = "summarize"
        /\ kind \in Kinds
        /\ input \in Inputs(impl, kind)
     \/ /\ op = "detect"
        /\ kind = "text"
        /\ input \in {StringInput(s) : s \in DetectTexts}
     \/ /\ op = "rule"
        /\ kind = "text"
        /\ input \in {StringInput(s) : s \in RuleTexts}
     \/ /\ op = "chat"
        /\ kind = "text"
        /\ input \in {StringInput(s) : s \in ChatMessages}
     \/ /\ op = "url"
        /\ kind = "link"
        /\ input \in {StringInput(s) : s \in RouteUrls}
     \/ /\ op = "page"
        /\ impl = "hf"
        /\ kind = "text"
        /\ input = StringInput(<<>>)
  /\ route \in {NoRoute}
       \cup (IF op = "url" THEN {Route("routes"), Route("index")} ELSE {})
  /\ op = "url" => route # NoRoute
  /\ ui = FirstRender
  /\ calls = NoCalls
  /\ pc = IF op = "page" THEN "mounted" ELSE "start"
  /\ result = NoResult
  /\ verdict = NoVerdict
  /\ pdfText = <<>>
  /\ browser = "none"
  /\ page = <<>>
  /\ videoId = <<>>
  /\ hfText = <<>>
  /\ chunks = <<>>
  /\ summaries = <<>>
  /\ inflight = 0
  /\ posts = <<>>
  /\ replies = <<>>
  /\ pass = 0
  /\ strategies = {}
  /\ outbound = {}
  /\ extract = "none"
  /\ classifyCalls = 0
  /\ reply = <<>>
  /\ chatCalls = 0
  /\ chatSent = <<>>
  /\ chatReply = NoReply

\* The request returns (or rejects) with r.
Done(r) ==
  /\ pc' = "done"
  /\ result' = r

\* hfSummarize(t) is called.
CallHf(t) ==
  /\ pc' = "hf_enter"
  /\ hfText' = t
  /\ pass' = 1
  /\ strategies' = strategies \cup {"hf"}
  /\ UNCHANGED <<result, chunks, summaries, inflight, posts, replies>>

\* ruleBasedTextSummarizer(t) is called and its value returned.
ReturnRuleBased(t) ==
  /\ Done(Returned(ruleBasedTextSummarizer(t)))
  /\ strategies' = strategies \cup {"rule"}
  /\ UNCHANGED hfVars

\* The text handed over is summarized by the revision's strategy.
Summarize(t) ==
  IF impl = "hf" THEN CallHf(t) ELSE ReturnRuleBased(t)

\* The request ends with r and no strategy was called in this step.
ReturnPlain(r) ==
  /\ Done(r)
  /\ UNCHANGED <<strategies, hfVars>>

\* type === "text" && typeof input === "string"
StartText ==
  /\ pc = "start" /\ op = "summarize"
  /\ kind = "text" /\ input.type = "string"
  /\ Summarize(input.chars)
  /\ extract' = "plain"
  /\ UNCHANGED <<reqVars, pdfText, linkVars, outbound, detectVars>>
  /\ UNCHANGED <<chatVars, webVars>>

\* type === "pdf": readPdfContent is called (openai.ts only).
StartPdf ==
  /\ pc = "start" /\ op = "summarize"
  /\ kind = "pdf" /\ impl # "hf"
  /\ pc' = "pdf_read"
  /\ outbound' = outbound \cup {"document"}
  /\ UNCHANGED <<reqVars, result, pdfText, linkVars, hfVars, strategies,
                 extract, detectVars>>
  /\ UNCHANGED <<chatVars, webVars>>

\* readPdfContent settles and summarizeText goes on with its value.
PdfRead ==
  /\ pc = "pdf_read"
  /\ \E doc \in DocReplies(impl, input) :
       LET text == readPdfContent(impl, doc)
       IN  /\ pdfText' = text
           /\ extract' = DocExtract(doc)
           /\ Done(Returned(PdfSummary(text)))
           /\ strategies' = strategies \cup PdfStrategies(text)
  /\ UNCHANGED <<reqVars, linkVars, hfVars, outbound, detectVars>>
  /\ UNCHANGED <<chatVars, webVars>>

\* type === "link" && typeof input === "string"
StartLink ==
  /\ pc = "start" /\ op = "summarize"
  /\ kind = "link" /\ input.type = "string"
  /\ pc' = IF impl = "pdfco" THEN "link_fetch" ELSE "link_launch"
  /\ UNCHANGED <<reqVars, result, pdfText, linkVars, hfVars, strategies,
                 outbound, extract, detectVars>>
  /\ UNCHANGED <<chatVars, webVars>>

\* puppeteer.launch resolves.
LinkLaunch ==
  /\ pc = "link_launch"
  /\ browser' = "open"
  /\ outbound' = outbound \cup {"browser"}
  /\ pc' = "link_newpage"
  /\ UNCHANGED <<reqVars, result, pdfText, page, videoId, hfVars, strategies,
                 extract, detectVars>>
  /\ UNCHANGED <<chatVars, webVars>>

\* browser.newPage resolves.
LinkNewPage ==
  /\ pc = "link_newpage"
  /\ pc' = "link_goto"
  /\ UNCHANGED <<reqVars, result, pdfText, linkVars, hfVars, strategies,
                 outbound, extract, detectVars>>
  /\ UNCHANGED <<chatVars, webVars>>

\* page.goto resolves.
LinkGoto ==
  /\ pc = "link_goto"
  /\ pc' = IF impl = "hf" THEN "link_strip" ELSE "link_eval"
  /\ UNCHANGED <<reqVars, result, pdfText, linkVars, hfVars, strategies,
                 outbound, extract, detectVars>>
  /\ UNCHANGED <<chatVars, webVars>>

\* part_001 lines 124-127: the script, style, noscript and iframe nodes go.
LinkStrip ==
  /\ pc = "link_strip"
  /\ pc' = "link_eval"
  /\ UNCHANGED <<reqVars, result, pdfText, linkVars, hfVars, strategies,
                 outbound, extract, detectVars>>
  /\ UNCHANGED <<chatVars, webVars>>

\* page.evaluate(() => document.body.innerText || "") resolves.
LinkEval ==
  /\ pc = "link_eval"
  /\ \E text \in PageTexts : page' = text
  /\ pc' = "link_close"
  /\ UNCHANGED <<reqVars, result, pdfText, browser, videoId, hfVars,
                 strategies, outbound, extract, detectVars>>
  /\ UNCHANGED <<chatVars, webVars>>

\* browser.close resolves and the text read is summarized.
LinkClose ==
  /\ pc = "link_close"
  /\ browser' = "closed"
  /\ extract' = PageExtract(page)
  /\ IF impl = "hf"
       THEN IF Normalize(page) = <<>>
              THEN ReturnPlain(Returned(MsgLinkNoTextHF))
              ELSE CallHf(Normalize(page))
       ELSE IF page # <<>>
              THEN ReturnRuleBased(page)
              ELSE ReturnPlain(Returned(MsgLinkNoText))
  /\ UNCHANGED <<reqVars, pdfText, page, videoId, outbound, detectVars>>
  /\ UNCHANGED <<chatVars, webVars>>

\* Launching, opening the page, navigating or evaluating rejects: the catch
\* block of summarizeText runs.
LinkThrows ==
  /\ pc \in {"link_launch", "link_newpage", "link_goto", "link_strip",
             "link_eval"}
  /\ outbound' = outbound \cup {"browser"}
  /\ extract' = "fetch_failed"
  /\ ReturnPlain(SummarizeCatch)
  /\ UNCHANGED <<reqVars, pdfText, linkVars, detectVars>>
  /\ UNCHANGED <<chatVars, webVars>>

\* openai.ts lines 253-255: the scraping service answers.
LinkFetch ==
  /\ pc = "link_fetch"
  /\ outbound' = outbound \cup {"scraper"}
  /\ \E data \in HtmlPages :
       /\ extract' = PageExtract(StripTags(data))
       /\ ReturnRuleBased(StripTags(data))
  /\ UNCHANGED <<reqVars, pdfText, linkVars, detectVars>>
  /\ UNCHANGED <<chatVars, webVars>>

\* The scraping service call rejects.
LinkFetchThrows ==
  /\ pc = "link_fetch"
  /\ outbound' = outbound \cup {"scraper"}
  /\ extract' = "fetch_failed"
  /\ ReturnPlain(SummarizeCatch)
  /\ UNCHANGED <<reqVars, pdfText, linkVars, detectVars>>
  /\ UNCHANGED <<chatVars, webVars>>

\* type === "youtube" && typeof input === "string"
StartYouTube ==
  /\ pc = "start" /\ op = "summarize"
  /\ kind = "youtube" /\ input.type = "string"
  /\ LET m == videoIdMatch(input.chars)
     IN  IF m.matched
           THEN /\ videoId' = m.group
                /\ pc' = "yt_lookup"
                /\ UNCHANGED <<result, extract>>
           ELSE /\ Done(Returned(MsgInvalidYouTube))
                /\ extract' = "invalid_ref"
                /\ UNCHANGED videoId
  /\ UNCHANGED <<reqVars, pdfText, browser, page, hfVars, strategies,
                 outbound, detectVars>>
  /\ UNCHANGED <<chatVars, webVars>>

\* The catalog answers for videoId.
YtLookup ==
  /\ pc = "yt_lookup"
  /\ outbound' = outbound \cup {"catalog"}
  /\ \E c \in CatalogReplies :
       /\ extract' = IF c.items \in {"missing", "empty"}
                       THEN "lookup_failed" ELSE "ok"
       /\ IF impl = "hf"
            THEN IF c.items \in {"missing", "empty"}
                   THEN ReturnPlain(Returned(MsgVideoNotFound))
                 ELSE IF Normalize(VideoText(c.title, c.description)) = <<>>
                   THEN ReturnPlain(Returned(MsgNoContentVideo))
                 ELSE CallHf(Normalize(VideoText(c.title, c.description)))
            ELSE IF c.items # "snippet"
                   THEN ReturnPlain(Returned(MsgVideoNotFound))
                   ELSE ReturnRuleBased(VideoText(c.title, c.description))
  /\ UNCHANGED <<reqVars, pdfText, linkVars, detectVars>>
  /\ UNCHANGED <<chatVars, webVars>>

\* The catalog call rejects.
YtLookupThrows ==
  /\ pc = "yt_lookup"
  /\ outbound' = outbound \cup {"catalog"}
  /\ extract' = "lookup_failed"
  /\ ReturnPlain(IF impl = "hf" THEN Returned(MsgVideoFetchFailed)
                 ELSE SummarizeCatch)
  /\ UNCHANGED <<reqVars, pdfText, linkVars, detectVars>>
  /\ UNCHANGED <<chatVars, webVars>>

\* No branch takes the request.
StartUnsupported ==
  /\ pc = "start" /\ op = "summarize"
  /\ \/ input.type # "string" /\ kind # "pdf"
     \/ kind = "pdf" /\ impl = "hf"
  /\ ReturnPlain(Returned(MsgUnsupported))
  /\ UNCHANGED <<reqVars, pdfText, linkVars, outbound, extract, detectVars>>
  /\ UNCHANGED <<chatVars, webVars>>

\* part_001 lines 35-49: hfSummarize cleans and chunks its text.
HfEnter ==
  /\ pc = "hf_enter"
  /\ LET cleaned == Normalize(hfText)
     IN  IF cleaned = <<>>
           THEN /\ Done(Returned(MsgNoText))
                /\ UNCHANGED <<chunks, summaries, posts, replies>>
         ELSE IF ChunkTexts(cleaned) = <<>>
           THEN /\ Done(Returned(MsgTooShort))
                /\ UNCHANGED <<chunks, summaries, posts, replies>>
         ELSE /\ chunks' = ChunkTexts(cleaned)
              /\ summaries' = <<>>
              /\ posts' = <<>>
              /\ replies' = <<>>
              /\ pc' = "hf_loop"
              /\ UNCHANGED result
  /\ UNCHANGED <<reqVars, pdfText, linkVars, hfText, inflight, pass,
                 strategies, outbound, extract, detectVars>>
  /\ UNCHANGED <<chatVars, webVars>>

\* HfPost without the await: the call for the next chunk is issued while
\* earlier calls may still be in flight.
HfPostFanOut ==
  /\ pc \in {"hf_loop", "hf_await"}
  /\ Len(posts) < Len(chunks)
  /\ posts' = Append(posts, chunks[Len(posts) + 1])
  /\ inflight' = inflight + 1
  /\ outbound' = outbound \cup {"summarizer"}
  /\ pc' = "hf_await"
  /\ UNCHANGED <<reqVars, result, pdfText, linkVars, hfText, chunks,
                 summaries, replies, pass, strategies, extract, detectVars>>
  /\ UNCHANGED <<chatVars, webVars>>

\* Lines 51-61: the call for the next chunk is issued.
HfPost ==
  /\ pc = "hf_loop"
  /\ posts' = Append(posts, chunks[Len(summaries) + 1])
  /\ inflight' = inflight + 1
  /\ outbound' = outbound \cup {"summarizer"}
  /\ pc' = "hf_await"
  /\ UNCHANGED <<reqVars, result, pdfText, linkVars, hfText, chunks,
                 summaries, replies, pass, strategies, extract, detectVars>>
  /\ UNCHANGED <<chatVars, webVars>>

\* Lines 63-73: the call resolves and its entry is pushed.
HfResponse ==
  /\ pc = "hf_await"
  /\ \E data \in HfResponses(chunks[Len(summaries) + 1]) :
       /\ summaries' = Append(summaries, SummaryEntry(data))
       /\ replies' = Append(replies, ReplyClass(data))
  /\ inflight' = inflight - 1
  /\ pc' = IF Len(summaries) + 1 < Len(chunks) THEN "hf_loop" ELSE "hf_merge"
  /\ UNCHANGED <<reqVars, result, pdfText, linkVars, hfText, chunks, posts,
                 pass, strategies, outbound, extract, detectVars>>
  /\ UNCHANGED <<chatVars, webVars>>

\* The call rejects: the catch block of hfSummarize runs.
HfThrows ==
  /\ pc = "hf_await"
  /\ replies' = Append(replies, "throw")
  /\ inflight' = inflight - 1
  /\ Done(HfCatch)
  /\ UNCHANGED <<reqVars, pdfText, linkVars, hfText, chunks, summaries,
                 posts, pass, strategies, outbound, extract, detectVars>>
  /\ UNCHANGED <<chatVars, webVars>>

\* Lines 75-81 with no recursion: the summary is returned.
HfReturn ==
  /\ pc = "hf_merge"
  /\ ~HfOutcome(summaries).recurse
  /\ Done(Returned(HfOutcome(summaries).value))
  /\ UNCHANGED <<reqVars, pdfText, linkVars, hfVars, strategies, outbound,
                 extract, detectVars>>
  /\ UNCHANGED <<chatVars, webVars>>

\* Line 78: hfSummarize calls itself with the merged summaries.
HfRecurse ==
  /\ pc = "hf_merge"
  /\ HfOutcome(summaries).recurse
  /\ hfText' = HfOutcome(summaries).value
  /\ pass' = IF pass < MaxPass THEN pass + 1 ELSE pass
  /\ pc' = "hf_enter"
  /\ UNCHANGED <<reqVars, result, pdfText, linkVars, chunks, summaries,
                 inflight, posts, replies, strategies, outbound, extract,
                 detectVars>>
  /\ UNCHANGED <<chatVars, webVars>>

SummarizeNext ==
  \/ StartText \/ StartPdf \/ PdfRead
  \/ StartLink \/ LinkLaunch \/ LinkNewPage \/ LinkGoto \/ LinkStrip
  \/ LinkEval \/ LinkClose \/ LinkThrows \/ LinkFetch \/ LinkFetchThrows
  \/ StartYouTube \/ YtLookup \/ YtLookupThrows \/ StartUnsupported
  \/ HfEnter \/ HfPost \/ HfResponse \/ HfThrows \/ HfReturn \/ HfRecurse

\* The verdict is returned.
ReturnVerdict(v) ==
  /\ verdict' = v
  /\ Done(Returned(<<>>))

\* Lines 143-147 (openai.ts), 213-218 (part_001): an allowlist entry is found.
DetectTrusted ==
  /\ pc = "start" /\ op = "detect"
  /\ FirstTrusted(TrustedList(impl), lowerText(input.chars)) # 0
  /\ ReturnVerdict(TrustedVerdict(impl,
       TrustedList(impl)[FirstTrusted(TrustedList(impl),
                                      lowerText(input.chars))]))
  /\ UNCHANGED <<reqVars, pdfText, linkVars, hfVars, strategies, outbound,
                 extract, classifyCalls, reply>>
  /\ UNCHANGED <<chatVars, webVars>>

\* openai.ts lines 149-154, 320: no entry is found and the verdict is local.
DetectLocal ==
  /\ pc = "start" /\ op = "detect" /\ impl # "hf"
  /\ FirstTrusted(TrustedList(impl), lowerText(input.chars)) = 0
  /\ ReturnVerdict(IF impl = "pdflib"
                     THEN HeuristicVerdict(lowerText(input.chars))
                     ELSE NotFoundVerdict)
  /\ UNCHANGED <<reqVars, pdfText, linkVars, hfVars, strategies, outbound,
                 extract, classifyCalls, reply>>
  /\ UNCHANGED <<chatVars, webVars>>

\* part_001 lines 220-228: no entry is found and the remote call is issued.
DetectClassify ==
  /\ pc = "start" /\ op = "detect" /\ impl = "hf"
  /\ FirstTrusted(TrustedList(impl), lowerText(input.chars)) = 0
  /\ classifyCalls' = classifyCalls + 1
  /\ pc' = "classify"
  /\ UNCHANGED <<reqVars, result, verdict, pdfText, linkVars, hfVars,
                 strategies, outbound, extract, reply>>
  /\ UNCHANGED <<chatVars, webVars>>

\* Lines 230-238: the remote call resolves.
ClassifyReply ==
  /\ pc = "classify"
  /\ \E content \in Contents :
       /\ reply' = content
       /\ ReturnVerdict(ReplyVerdict(content))
  /\ UNCHANGED <<reqVars, pdfText, linkVars, hfVars, strategies, outbound,
                 extract, classifyCalls>>
  /\ UNCHANGED <<chatVars, webVars>>

\* The remote call rejects.
ClassifyThrows ==
  /\ pc = "classify"
  /\ reply' = <<Piece("throw", JOther("null"))>>
  /\ ReturnVerdict(DetectCatch)
  /\ UNCHANGED <<reqVars, pdfText, linkVars, hfVars, strategies, outbound,
                 extract, classifyCalls>>
  /\ UNCHANGED <<chatVars, webVars>>

DetectNext ==
  \/ DetectTrusted \/ DetectLocal \/ DetectClassify
  \/ ClassifyReply \/ ClassifyThrows

\* ruleBasedTextSummarizer(text) is called by a module that imports it.
RuleCall ==
  /\ pc = "start" /\ op = "rule"
  /\ Done(Returned(IF impl = "hf"
                     THEN ruleBasedTextSummarizerHF(input.chars)
                     ELSE ruleBasedTextSummarizer(input.chars)))
  /\ strategies' = strategies \cup {"rule"}
  /\ UNCHANGED <<reqVars, pdfText, linkVars, hfVars, outbound, extract,
                 detectVars, chatVars, webVars>>

RuleNext == RuleCall

\* chatWithAI: client.chat.completions.create is called.
ChatCreate ==
  /\ pc = "start" /\ op = "chat"
  /\ \E context \in ChatContexts :
       chatSent' = UserContent(input.chars, context)
  /\ chatCalls' = chatCalls + 1
  /\ outbound' = outbound \cup {"chat"}
  /\ pc' = "chat_await"
  /\ UNCHANGED <<reqVars, result, pdfText, linkVars, hfVars, strategies,
                 extract, detectVars, chatReply, webVars>>

\* The call resolves with a completion.
ChatResolves ==
  /\ pc = "chat_await"
  /\ \E r \in ChatReplies :
       /\ chatReply' = r
       /\ Done(ChatAnswer(impl, r))
  /\ UNCHANGED <<reqVars, pdfText, linkVars, hfVars, strategies, outbound,
                 extract, detectVars, chatCalls, chatSent,
                 webVars>>

\* The call rejects: the catch block runs.
ChatThrows ==
  /\ pc = "chat_await"
  /\ chatReply' = ChatReply("throw", <<>>)
  /\ Done(ChatCatch(impl))
  /\ UNCHANGED <<reqVars, pdfText, linkVars, hfVars, strategies, outbound,
                 extract, detectVars, chatCalls, chatSent,
                 webVars>>

ChatNext == ChatCreate \/ ChatResolves \/ ChatThrows


(***************************************************************************)
(* POST /api/summarize/url.                                                *)
(***************************************************************************)
\* The route answers with a status and a message and the request is over.
RouteReplies(status, message) ==
  /\ route' = [route EXCEPT !.status = status, !.message = message]
  /\ pc' = "responded"

\* The route calls summarizeText(value, "link").
RouteSummarize(value) ==
  /\ op' = "summarize"
  /\ kind' = "link"
  /\ input' = StringInput(value)
  /\ pc' = "start"

\* routes.ts lines 76-80, index.ts lines 192-202: the address is read from
\* the body; index.ts hands it to summarizeText, routes.ts fetches it.
RouteUrl ==
  /\ pc = "start" /\ op = "url"
  /\ LET link == Trim(input.chars)
     IN  IF link = <<>>
           THEN /\ RouteReplies(400, "URL is required")
                /\ UNCHANGED <<op, kind, input>>
         ELSE IF route.rev = "index"
           THEN /\ route' = [route EXCEPT !.link = link]
                /\ RouteSummarize(link)
         ELSE /\ route' = [route EXCEPT !.link = link]
              /\ pc' = "route_fetch"
              /\ UNCHANGED <<op, kind, input>>
  /\ UNCHANGED <<impl, result, pdfText, linkVars, hfVars, strategies,
                 outbound, extract, detectVars, chatVars, ui, calls>>

\* routes.ts lines 82-93: the page is fetched and its text handed on.
RouteFetch ==
  /\ pc = "route_fetch"
  /\ outbound' = outbound \cup {"origin"}
  /\ \E html \in RoutePages : RouteSummarize(RouteText(html))
  /\ UNCHANGED <<impl, result, pdfText, linkVars, hfVars, strategies,
                 extract, detectVars, chatVars, webVars>>

\* routes.ts line 83: the page answers with a status that is not ok.
RouteFetchNotOk ==
  /\ pc = "route_fetch"
  /\ outbound' = outbound \cup {"origin"}
  /\ RouteReplies(400, "Unable to fetch URL")
  /\ UNCHANGED <<reqVars, result, pdfText, linkVars, hfVars, strategies,
                 extract, detectVars, chatVars, ui, calls>>

\* routes.ts lines 95-98: fetch or response.text rejects; the message is the
\* error's, or the fixed one when the error has none.
RouteFetchThrows ==
  /\ pc = "route_fetch"
  /\ outbound' = outbound \cup {"origin"}
  /\ \E message \in {"fetch failed", "Failed to summarize URL"} :
       RouteReplies(500, message)
  /\ UNCHANGED <<reqVars, result, pdfText, linkVars, hfVars, strategies,
                 extract, detectVars, chatVars, ui, calls>>

\* routes.ts lines 93-98, index.ts lines 202-207: summarizeText has settled.
RouteRespond ==
  /\ pc = "done" /\ route.rev # "none"
  /\ IF result.status = "returned"
       THEN RouteReplies(200, "")
       ELSE RouteReplies(500, "Failed to summarize URL")
  /\ UNCHANGED <<reqVars, result, pdfText, linkVars, hfVars, strategies,
                 outbound, extract, detectVars, chatVars, ui, calls>>

RouteNext ==
  \/ RouteUrl \/ RouteFetch \/ RouteFetchNotOk \/ RouteFetchThrows
  \/ RouteRespond

(***************************************************************************)
(* The summarizer page.                                                    *)
(***************************************************************************)
serverVars ==
  <<reqVars, pc, result, pdfText, linkVars, hfVars, strategies, outbound,
    extract, detectVars, chatVars, route>>

\* Lines 129, 162, 167: the user changes the text area.
TypeInput ==
  /\ op = "page"
  /\ \E text \in TypedTexts \ {ui.inputText} :
       ui' = [ui EXCEPT !.inputText = text]
  /\ UNCHANGED <<serverVars, calls>>

\* Lines 24-39, 174: the Generate button is pressed and the request of
\* handleSummarize is sent.
HandleSummarize ==
  /\ op = "page" /\ GenerateEnabled
  /\ Awaiting < MaxRequests
  /\ IF Trim(ui.inputText) = <<>>
       THEN /\ ui' = [ui EXCEPT !.toast = "Input required"]
            /\ UNCHANGED calls
       ELSE /\ ui' = [ui EXCEPT !.loading = TRUE, !.summary = <<>>,
                                !.errorMsg = "", !.toast = ""]
            /\ calls' = [calls EXCEPT !.summarize = @ + 1]
  /\ UNCHANGED serverVars

\* Lines 39-54: the request is answered with data, and `finally` runs.
SummarizeAnswered ==
  /\ op = "page" /\ calls.summarize > 0
  /\ \E data \in SummarizeAnswers :
       IF Trim(data.summary) # <<>>
         THEN ui' = [ui EXCEPT !.summary = data.summary,
                               !.toast = "Summary generated!",
                               !.loading = FALSE]
         ELSE ui' = [ui EXCEPT !.errorMsg =
                                 IF data.error # "" THEN data.error
                                 ELSE "Invalid response from server",
                               !.toast = "Error",
                               !.loading = FALSE]
  /\ calls' = [calls EXCEPT !.summarize = @ - 1]
  /\ UNCHANGED serverVars

\* Lines 39-40, 48-54: apiRequest or raw.json rejects, and `finally` runs.
SummarizeRejected ==
  /\ op = "page" /\ calls.summarize > 0
  /\ \E message \in {"Failed to fetch", ""} :
       ui' = [ui EXCEPT !.errorMsg = IF message # "" THEN message
                                     ELSE "Failed to generate summary",
                        !.toast = "Error",
                        !.loading = FALSE]
  /\ calls' = [calls EXCEPT !.summarize = @ - 1]
  /\ UNCHANGED serverVars

\* Lines 57-62.
HandleReset ==
  /\ op = "page"
  /\ ui' = [ui EXCEPT !.inputText = <<>>, !.summary = <<>>, !.errorMsg = "",
                      !.pdfUploaded = FALSE]
  /\ UNCHANGED <<serverVars, calls>>

\* Lines 64-73, 99-105, 154: a file is chosen or dropped; a PDF file sets
\* loading and is read.
HandlePdfUpload ==
  /\ op = "page"
  /\ \E file \in {"none", "image/png", "application/pdf"} :
       IF file # "application/pdf"
         THEN /\ ui' = [ui EXCEPT !.toast = "Invalid file"]
              /\ UNCHANGED calls
         ELSE /\ Awaiting < MaxRequests
              /\ ui' = [ui EXCEPT !.loading = TRUE]
              /\ calls' = [calls EXCEPT !.reading = @ + 1]
  /\ UNCHANGED serverVars

\* Lines 74-80: the file has been read and the upload is sent.
PdfPost ==
  /\ op = "page" /\ calls.reading > 0
  /\ calls' = [calls EXCEPT !.reading = @ - 1, !.upload = @ + 1]
  /\ UNCHANGED <<serverVars, ui>>

\* Lines 82-85, 88-90: the upload is answered with a summary, and `finally`
\* runs.
PdfAnswered ==
  /\ op = "page" /\ calls.upload > 0
  /\ \E summary \in {TitleTalk, <<>>} :
       ui' = [ui EXCEPT !.inputText = summary, !.pdfUploaded = TRUE,
                        !.toast = "PDF Summarized", !.loading = FALSE]
  /\ calls' = [calls EXCEPT !.upload = @ - 1]
  /\ UNCHANGED serverVars

\* Lines 86-90: reading the file, the upload or res.json rejects, and
\* `finally` runs.
PdfRejected ==
  /\ op = "page"
  /\ \E stage \in {"reading", "upload"} :
       /\ calls[stage] > 0
       /\ calls' = [calls EXCEPT ![stage] = @ - 1]
  /\ ui' = [ui EXCEPT !.toast = "Error", !.loading = FALSE]
  /\ UNCHANGED serverVars

PageNext ==
  \/ TypeInput \/ HandleSummarize \/ SummarizeAnswered \/ SummarizeRejected
  \/ HandleReset \/ HandlePdfUpload \/ PdfPost \/ PdfAnswered \/ PdfRejected

Next ==
  \/ SummarizeNext \/ DetectNext \/ RuleNext \/ ChatNext
  \/ RouteNext \/ PageNext

Spec == Init /\ [][Next]_vars

(***************************************************************************)
(* Properties.                                                             *)
(***************************************************************************)
\* Positions where a word of a normalized text starts and ends.
WordStarts(s) ==
  SelectSeq(Indices(s), LAMBDA i : s[i] # " " /\ (i = 1 \/ s[i - 1] = " "))

WordEnds(s) ==
  SelectSeq(Indices(s),
            LAMBDA i : s[i] # " " /\ (i = Len(s) \/ s[i + 1] = " "))

WordCount(s) == Len(WordStarts(s))

\* The least c with n <= 500 * c.
CallsFor(n) == CHOOSE c \in 0..n : n <= 500 * c /\ (c = 0 \/ 500 * (c - 1) < n)

\* Words 500(j-1)+1 .. 500j of a normalized text s, as they stand in it;
\* starts and ends are the positions where the words of s start and end.
WindowAt(s, starts, ends, j) ==
  LET last == IF 500 * j < Len(starts) THEN 500 * j ELSE Len(starts)
  IN  SubSeq(s, starts[500 * (j - 1) + 1], ends[last])

\* The strings of a short list, with one space between neighbours.
RECURSIVE Spaced(_)
Spaced(list) ==
  IF Len(list) = 1 THEN list[1]
  ELSE Spaced(SubSeq(list, 1, Len(list) - 1)) \o <<" ">> \o list[Len(list)]

SpaceCount(s) == Len(SelectSeq(s, IsSpace))

InHfPass == op = "summarize" /\ impl = "hf"
              /\ pc \in {"hf_loop", "hf_await", "hf_merge"}

\* A call of the running pass has just been issued or answered.  (`posts`
\* grows in HfPost alone, which leads here; between two calls it is as the
\* last call left it.)
CallIssued == InHfPass /\ pc \in {"hf_await", "hf_merge"}

FailedExtractions ==
  {"unreadable", "empty", "fetch_failed", "invalid_ref", "lookup_failed"}

\* C1: summarizeText never raises to its caller: whatever the kind, the
\* input and the failure of a collaborator, a request that has ended has
\* returned a string and none has ended by an exception.  (Whether every
\* request ends is the subject of C7.)
C1_NeverRaises ==
  op = "summarize" =>
    /\ result.status # "thrown"
    /\ pc = "done" => result.status = "returned"

\* A page fetch failed and the request returned the fixed message.
C1_Witness ==
  /\ op = "summarize" /\ pc = "done" /\ kind = "link"
  /\ extract = "fetch_failed"
  /\ result = Returned(MsgInternalError)

\* C2: every path of summarizeText ends in a non-empty string, also for the
\* empty string, whitespace-only text and text of sentence punctuation only.
C2_NonEmptyResult ==
  (op = "summarize" /\ pc = "done") => Len(result.value) > 0

\* C3: with a remote backend whose every call fails, summarizing the plain
\* text "A. B. C. D. E." falls back to the rule-based strategy and returns its
\* summary, not a failure message.
C3_FallbackToExtractive ==
  ( /\ op = "summarize" /\ impl = "hf" /\ kind = "text"
    /\ input = StringInput(TextFive)
    /\ pc = "done"
    /\ replies # <<>> /\ \A i \in 1..Len(replies) : replies[i] = "throw" )
  => /\ "rule" \in strategies
     /\ result = Returned(ruleBasedTextSummarizerHF(TextFive))

\* C4: when extraction fails, no summarization strategy is invoked at any
\* point of the request.
C4_NoStrategyAfterFailedExtraction ==
  (op = "summarize" /\ extract \in FailedExtractions) => strategies = {}

\* C5: in a pass of hfSummarize over a normalized text of n >= 1 words the
\* calls issued are, in order, for words 1..500, 501..1000, ... of the text,
\* and when the loop is over and the merge is due exactly ceil(n/500) calls
\* have been issued (3 for 1,200 words).  (A call is compared with its
\* window in the state where it has just been issued: `posts` only grows
\* during a pass.)
C5_ChunkCallsInOrder ==
  CallIssued =>
    LET cleaned == Normalize(hfText)
        starts  == WordStarts(cleaned)
        ends    == WordEnds(cleaned)
        n       == Len(starts)
    IN  /\ n >= 1
        /\ Len(posts) <= CallsFor(n)
        /\ pc = "hf_await" =>
             posts[Len(posts)] = WindowAt(cleaned, starts, ends, Len(posts))
        /\ pc = "hf_merge" => Len(posts) = CallsFor(n)
        /\ (n = 1200 /\ pc = "hf_merge") => Len(posts) = 3

\* The three calls for a text of MaxWords words have been issued.
C5_Witness ==
  /\ InHfPass /\ pc = "hf_merge" /\ pass = 1
  /\ WordCount(Normalize(hfText)) = MaxWords
  /\ Len(posts) = 3

\* C6 as stated: once the merge of a multi-chunk pass exceeds 500 words,
\* exactly one more summarization call is issued, and it is for the merged
\* text.
C6_OneMoreCall ==
  (InHfPass /\ pass = 2) =>
    /\ Len(posts) <= 1
    /\ \A j \in 1..Len(posts) : posts[j] = hfText

\* C6 as amended: when the loop of a pass with several chunks is over, a
\* merge of at most 500 space-separated words is returned with no further
\* call, and a longer merge is handed to hfSummarize again, once; the new
\* pass chunks the merged text, so it issues at least two calls, each for at
\* most 500 words.
C6_MergeStep ==
  (pc = "hf_merge" /\ Len(summaries) > 1) =>
    IF SpaceCount(Spaced(summaries)) + 1 <= 500
      THEN /\ pc' = "done"
           /\ result' = Returned(Spaced(summaries))
           /\ posts' = posts
      ELSE /\ pc' = "hf_enter"
           /\ hfText' = Spaced(summaries)
           /\ result' = result
           /\ posts' = posts

\* A later pass is checked where its text, its calls and its call count are
\* settled: on entry, after each call, and when the merge is due.
C6_LaterPass ==
  (op = "summarize" /\ impl = "hf" /\ pass >= 2) =>
    /\ pc = "hf_enter" => SpaceCount(hfText) + 1 > 500
    /\ pc = "hf_await" => WordCount(posts[Len(posts)]) <= 500
    /\ pc = "hf_merge" =>
         \/ Len(posts) >= 2
         \/ LET cleaned == Normalize(hfText)
            IN  WordCount(cleaned) <= 500

C6_MergeThenRecurse == [][C6_MergeStep]_vars /\ []C6_LaterPass

\* The second call of the second pass is in flight.
C6_Witness ==
  InHfPass /\ pass = 2 /\ pc = "hf_await" /\ Len(posts) = 2

\* C7: the recursion of hfSummarize is bounded by a maximum number of passes
\* (MaxPass, the "max 3 passes" of the specification): a pass that has
\* reached that number does not hand its merge to hfSummarize again, whatever
\* the backend answered.  A run that breaks this step can be continued for
\* ever by a backend that returns every chunk unchanged.
C7_DepthEnforced ==
  [][(pc = "hf_merge" /\ pass >= MaxPass) => pc' # "hf_enter"]_vars

\* C8: when the call of one chunk of several fails and others succeed, the
\* request is not aborted: the result holds the placeholder of the failed
\* chunk and the summaries of the others.
C8_PartialFailureTolerated ==
  ( /\ op = "summarize" /\ impl = "hf" /\ pc = "done"
    /\ Len(chunks) > 1
    /\ \E i \in 1..Len(replies) : replies[i] = "summary"
    /\ \E i \in 1..Len(replies) : replies[i] # "summary" )
  => /\ result.value # MsgAIUnavailable
     /\ Includes(result.value, ChunkFailedPrefix)
     /\ \A i \in 1..Len(summaries) :
          replies[i] = "summary" => Includes(result.value, summaries[i])

\* The text names an allowlist entry of the revision, in any letter case.
NamesTrusted(text, list) ==
  \E k \in 1..Len(list) :
    \E at \in 0..(Len(text) - Len(list[k])) :
      \A j \in 1..Len(list[k]) :
        text[at + j] \in {list[k][j], UpperOf(list[k][j])}

\* C9: for a text whose lowercase form contains an allowlist entry,
\* detectFakeNews answers isReal = true and issues no remote classification
\* call at any point of the request.
C9_AllowlistPrecedence ==
  (op = "detect" /\ NamesTrusted(input.chars, TrustedList(impl))) =>
    /\ classifyCalls = 0
    /\ pc # "classify"
    /\ pc = "done" => verdict.isReal = JBool(TRUE)

\* "...as reported by Reuters today..." was classified by the remote-model
\* revision.
C9_Witness ==
  /\ op = "detect" /\ impl = "hf" /\ pc = "done"
  /\ input.chars = LeadIn \o <<"R","e","u","t","e","r","s">> \o LeadOut
  /\ verdict.isReal = JBool(TRUE)
  /\ classifyCalls = 0

\* The remote call failed, or its reply, once the fence markers and the
\* whitespace around it are gone, is not the text of one JSON value.
TransportFailed == reply # <<>> /\ reply[1].tok = "throw"

ParseFailed ==
  LET said == SelectSeq(reply, LAMBDA p : p.tok \in {"json", "junk"})
  IN  /\ reply # <<>>
      /\ ~TransportFailed
      /\ \/ Len(said) # 1
         \/ said[1].tok = "junk"

\* C10: detectFakeNews never raises, and a transport or parse failure of the
\* remote classification yields {isReal: false, confidence: 0.3, reasoning:
\* "Temporarily unavailable - try again later"}.
C10_UnavailableVerdict ==
  (op = "detect" /\ pc = "done") =>
    /\ result.status = "returned"
    /\ (TransportFailed \/ ParseFailed) =>
         verdict = Verdict(JBool(FALSE), JNum(30), JStr(ReasonUnavailable))

\* A reply that is no JSON was answered with the fixed verdict.
C10_Witness ==
  /\ op = "detect" /\ pc = "done" /\ reply = <<Junk>>
  /\ verdict = Verdict(JBool(FALSE), JNum(30), JStr(ReasonUnavailable))

\* C11: every verdict detectFakeNews returns after a reply of the remote
\* classifier is well-formed: isReal is a boolean, confidence a number within
\* [0, 1], reasoning a string of at most 500 characters; and a reply that is
\* an object with none of the fields gets the defaults false, 0.5 and
\* "Analysis unavailable".
C11_WellFormedVerdict ==
  (op = "detect" /\ impl = "hf" /\ pc = "done" /\ classifyCalls = 1) =>
    /\ verdict.isReal.t = "bool"
    /\ verdict.confidence.t = "num"
    /\ verdict.confidence.n >= 0 /\ verdict.confidence.n <= 100
    /\ verdict.reasoning.t = "str"
    /\ Len(verdict.reasoning.s) <= 500
    /\ reply = <<Json(JObject(JMissing, JMissing, JMissing))>> =>
         verdict = Verdict(JBool(FALSE), JNum(50), JStr(ReasonDefault))

\* The sentence count at or below which the revision's rule-based summarizer
\* hands its text back.
Threshold == IF impl = "hf" THEN 2 ELSE 3

\* The number of non-empty sentences of a text.
SentenceCount(text) == Len(Sentences(text))

RuleReturned == op = "rule" /\ pc = "done"

\* C12: for a text with more sentences than the threshold, the summary that
\* ruleBasedTextSummarizer returns has strictly fewer sentences than the text.
C12_FewerSentences ==
  (RuleReturned /\ SentenceCount(input.chars) > Threshold) =>
    SentenceCount(result.value) < SentenceCount(input.chars)

\* C13: a text whose sentence count is at or below the threshold comes back
\* from ruleBasedTextSummarizer unchanged, character for character.
C13_UnchangedBelowThreshold ==
  (RuleReturned /\ SentenceCount(input.chars) <= Threshold) =>
    result = Returned(input.chars)

\* A text of three sentences with blanks of several kinds has come back as
\* it went in.
C13_Witness ==
  /\ RuleReturned /\ impl = "pdflib" /\ input.chars = LooseText(3)
  /\ result.value = LooseText(3)

\* C14: for a text with more sentences than the threshold, the string that
\* ruleBasedTextSummarizer returns has at most as many characters as the text.
C14_NotLonger ==
  (RuleReturned /\ SentenceCount(input.chars) > Threshold) =>
    Len(result.value) <= Len(input.chars)

\* hfSummarize has cut the text of the running pass into chunks and has not
\* issued a call yet.  (`chunks` is assigned nowhere else in the pass.)
JustChunked ==
  op = "summarize" /\ impl = "hf" /\ pc = "hf_loop" /\ summaries = <<>>

\* C15: the chunks hfSummarize cuts its normalized text into are whole words
\* of the text, at most 500 to a chunk, and put one after the other with a
\* space between them they give the text back: no word is lost, repeated or
\* moved.  A text with a word gives at least one chunk, the empty text none.
C15_ChunkerComplete ==
  /\ JustChunked =>
       /\ Len(chunks) >= 1
       /\ \A i \in 1..Len(chunks) :
            /\ chunks[i] # <<>>
            /\ chunks[i][1] # " " /\ chunks[i][Len(chunks[i])] # " "
            /\ WordCount(chunks[i]) <= 500
       /\ Spaced(chunks) = Normalize(hfText)
  /\ (op = "summarize" /\ impl = "hf" /\ pass = 1 /\ pc = "done"
        /\ Normalize(hfText) = <<>>) =>
       chunks = <<>> /\ posts = <<>>

\* The longest text has been cut into two chunks of 500 words and one of 200.
C15_Witness ==
  /\ InHfPass /\ pass = 1 /\ pc = "hf_loop" /\ posts = <<>>
  /\ WordCount(Normalize(hfText)) = MaxWords
  /\ Len(chunks) = 3
  /\ WordCount(chunks[1]) = 500 /\ WordCount(chunks[3]) = MaxWords - 1000

\* The texts the request has just normalized: the text hfSummarize was
\* called with, the text of the page, the text of the document.
NormalizedTexts ==
  (IF JustChunked THEN {Normalize(hfText)} ELSE {})
    \cup (IF impl = "hf" /\ browser = "closed" THEN {Normalize(page)} ELSE {})
    \cup (IF extract = "ok" /\ kind = "pdf" THEN {pdfText} ELSE {})

\* A string normalization leaves as it is: no blank but the single space, no
\* two spaces in a row, no space at either end.
Tidy(s) ==
  /\ \A i \in 1..Len(s) : s[i] \notin WhiteSpace \ {" "}
  /\ \A i \in 1..(Len(s) - 1) : ~(s[i] = " " /\ s[i + 1] = " ")
  /\ s # <<>> => s[1] # " " /\ s[Len(s)] # " "

\* C16: normalization is idempotent, and what it returns has no two spaces in
\* a row and no blank at either end.
C16_NormalizeIdempotent ==
  op = "summarize" =>
    \A s \in NormalizedTexts : Tidy(s) /\ Normalize(s) = s

\* The untidy text " a  b\n c " has been normalized to "a b c" and chunked.
C16_Witness ==
  /\ op = "summarize" /\ impl = "hf" /\ pc = "hf_loop"
  /\ hfText = TextUntidy
  /\ chunks = << <<"a", " ", "b", " ", "c">> >>

\* C17: a link request that launched a browser has closed it when it
\* returns, whichever step of the branch failed.
C17_BrowserClosed ==
  (op = "summarize" /\ kind = "link" /\ pc = "done"
     /\ "browser" \in outbound /\ browser # "none") =>
    browser = "closed"

\* The positions where a request awaits the answer of a remote service: the
\* page, the scraping service, the video catalog, the summarization backend,
\* the classifier, the chat model.
RemoteAwaits ==
  {"link_goto", "link_fetch", "yt_lookup", "hf_await", "classify",
   "chat_await"}

\* C18: every outbound call carries an explicit timeout: a request never
\* awaits a remote service on a call that has none, where it would wait for
\* ever if the service did not answer.
C18_EveryCallTimed ==
  pc \in RemoteAwaits => CallTimeout(impl, pc) > 0

\* The collaborators contacted that are outside the process (pdf-lib reads
\* the document inside it).
RemoteContacted ==
  outbound \ (IF impl = "pdflib" THEN {"document"} ELSE {})

\* The fixed messages summarizeText reports a failure with.
FailureMessages ==
  {MsgUnsupported, MsgInternalError, MsgInvalidYouTube, MsgVideoNotFound,
   MsgPdfNoTextRead, MsgPdfReadFailed, MsgPdfCoReadFailed,
   MsgPdfNoTextExtracted, MsgLinkNoText, MsgLinkNoTextHF, MsgNoContentVideo,
   MsgVideoFetchFailed, MsgNoText, MsgTooShort, MsgSummarizationFailed,
   MsgAIUnavailable}

\* C19: a failure that can be seen locally is reported with no remote call:
\* a video reference of neither accepted form gives "Invalid YouTube URL.",
\* an empty or whitespace-only input gives a failure message, and in both
\* cases no collaborator outside the process is contacted during the request.
C19_LocalFailuresStayLocal ==
  (op = "summarize" /\ input.type = "string") =>
    /\ (kind = "youtube" /\ ~videoIdMatch(input.chars).matched) =>
         /\ RemoteContacted = {}
         /\ pc = "done" => result = Returned(MsgInvalidYouTube)
    /\ Normalize(input.chars) = <<>> =>
         /\ RemoteContacted = {}
         /\ pc = "done" => /\ result.status = "returned"
                           /\ result.value \in FailureMessages

SingleCallReturned ==
  /\ op = "summarize" /\ impl = "hf" /\ pc = "done"
  /\ pass = 1 /\ Len(chunks) = 1 /\ Len(replies) = 1

\* C21: no detail of a remote failure reaches the caller of summarizeText:
\* a request whose only summarization call failed returns a string that does
\* not depend on the error text the backend reported, nor on the exception
\* the call raised; two runs that differ in that text only return the same
\* string.
C21_FailureTextHidden ==
  /\ (SingleCallReturned /\ replies[1] = "error") =>
       \A e \in BackendErrors :
         result = Returned(SummaryEntry(Data("object", <<>>, e)))
  /\ (SingleCallReturned /\ replies[1] = "throw") =>
       result = Returned(MsgAIUnavailable)

LinkReturned == op = "summarize" /\ kind = "link" /\ pc = "done"

\* C22: a page that was reached and whose text is empty after normalization
\* makes the link branch of summarizeText fail with the message for empty
\* content, which is not the message of a failed fetch or navigation; in
\* neither case is a summarization strategy invoked.
C22_EmptyPageDistinct ==
  /\ (LinkReturned /\ extract = "empty") =>
       /\ result \in {Returned(MsgLinkNoText), Returned(MsgLinkNoTextHF)}
       /\ result # SummarizeCatch
       /\ strategies = {}
  /\ (LinkReturned /\ extract = "fetch_failed") =>
       /\ result = SummarizeCatch
       /\ strategies = {}

\* The loop of a pass over several chunks is over and its merge has been
\* returned or handed to hfSummarize again.  (A pass cut short by a failed
\* call has fewer entries than chunks.)
MergeDone ==
  /\ op = "summarize" /\ impl = "hf" /\ pc \in {"done", "hf_enter"}
  /\ Len(summaries) > 1 /\ Len(summaries) = Len(chunks)

\* The entries the backend's answers of class c to a call for chunk can give.
EntriesFor(chunk, c) ==
  {SummaryEntry(d) : d \in {r \in HfResponses(chunk) : ReplyClass(r) = c}}

\* C23: the merge keeps the order of the text: for k chunks the merged
\* result is the k entries (summary or failure placeholder) with one space
\* between neighbours, and entry i is the one made from the answer to the
\* call for chunk i, whatever the pattern of summaries and error answers.
C23_MergeKeepsOrder ==
  MergeDone =>
    LET merged == IF pc = "done" THEN result.value ELSE hfText
    IN  /\ Len(replies) = Len(chunks)
        /\ merged = Spaced(summaries)
        /\ \A i \in 1..Len(chunks) :
             summaries[i] \in EntriesFor(chunks[i], replies[i])

\* Three chunks, the second answered with an error, the others with
\* summaries that differ: the result is the three entries in chunk order.
C23_Witness ==
  /\ MergeDone /\ pc = "done" /\ Len(chunks) = 3
  /\ replies = <<"summary", "error", "summary">>
  /\ summaries[1] # summaries[3]
  /\ result.value =
       summaries[1] \o <<" ">> \o summaries[2] \o <<" ">> \o summaries[3]

\* C24: within one hfSummarize request the calls are issued one after the
\* other: at most one summarization call is in flight at any time, and every
\* call issued before the one in flight has completed, so the call for chunk
\* i+1 is issued only after the call for chunk i has ended.
C24_OneCallAtATime ==
  (op = "summarize" /\ impl = "hf") =>
    /\ inflight \in {0, 1}
    /\ inflight = 1 <=> pc = "hf_await"
    /\ InHfPass => Len(posts) = Len(replies) + inflight

\* The call for the third chunk is in flight; the first two have completed.
C24_Witness ==
  /\ InHfPass /\ pass = 1 /\ inflight = 1
  /\ Len(chunks) = 3 /\ Len(posts) = 3 /\ Len(replies) = 2

\* C25: in the allowlist scan of detectFakeNews the first match wins: for a
\* text whose lowercase form contains several entries of the list ("mint"
\* and "livemint", say) the verdict is isReal = true with confidence 0.95
\* (the PDF.co revision's verdict has no confidence), and its reasoning names
\* the entry that stands earliest in the list among those contained.
C25_FirstMatchWins ==
  (op = "detect" /\ pc = "done") =>
    LET list  == TrustedList(impl)
        lower == toLowerCase(input.chars)
        hits  == {k \in 1..Len(list) : Includes(lower, list[k])}
    IN  hits # {} =>
          \E k \in hits :
            /\ \A j \in hits : k <= j
            /\ verdict.isReal = JBool(TRUE)
            /\ impl # "pdfco" => verdict.confidence = JNum(95)
            /\ verdict.reasoning =
                 JStr((IF impl = "pdfco" THEN ReasonTrustedPrefixPdfCo
                                         ELSE ReasonTrustedPrefix) \o list[k])

\* "Reuters and BBC" names two entries; "bbc" stands before "reuters" in the
\* list and is the one the verdict names.
C25_Witness ==
  /\ op = "detect" /\ impl = "pdflib" /\ pc = "done"
  /\ input.chars = TextTwoSources
  /\ verdict = Verdict(JBool(TRUE), JNum(95),
                       JStr(ReasonTrustedPrefix \o <<"b","b","c">>))

\* The lowercase text contains one of the three sensational words.
Sensational(lower) ==
  \E w \in {WordShocking, WordBreaking, WordMiracle} : Includes(lower, w)

\* C26: in the revision with the lexical heuristics, a text that matches no
\* allowlist entry gets isReal = false with confidence 0.3 if its lowercase
\* form contains "shocking", "breaking" or "miracle" (whatever its length),
\* else 0.4 if it has fewer than 100 characters, else 0.5; so isReal is true
\* if and only if an allowlist entry is a substring of the lowercase text.
C26_HeuristicVerdict ==
  (op = "detect" /\ impl = "pdflib" /\ pc = "done") =>
    LET lower   == toLowerCase(input.chars)
        matched == \E k \in 1..Len(trustedSources) :
                     Includes(lower, trustedSources[k])
    IN  /\ verdict.isReal = JBool(matched)
        /\ ~matched =>
             verdict.confidence =
               JNum(IF Sensational(lower) THEN 30
                    ELSE IF Len(input.chars) < 100 THEN 40 ELSE 50)

\* "SHOCKING cure!" is short and sensational: its confidence is 0.3, not 0.4.
C26_Witness ==
  /\ op = "detect" /\ impl = "pdflib" /\ pc = "done"
  /\ input.chars = TextShocking
  /\ verdict.isReal = JBool(FALSE)
  /\ verdict.confidence = JNum(30)

\* summarizeText was called with a text and handed it to hfSummarize.
HfTextRequest ==
  op = "summarize" /\ impl = "hf" /\ kind = "text" /\ input.type = "string"

\* A second call of the first pass has just been issued, or a second pass has
\* just been entered.  (Every state with two calls or a later pass comes
\* after such a state of the same request: `posts` grows by one in HfPost,
\* `pass` by one in HfRecurse.)
SecondCallOrPass ==
  \/ pc = "hf_await" /\ pass = 1 /\ Len(posts) = 2
  \/ pc = "hf_enter" /\ pass = 2

\* The normalized text has between 1 and 500 words.
AtMostOneChunk(text) ==
  LET cleaned == Normalize(text)
  IN  WordCount(cleaned) \in 1..500

\* C27: for a text whose normalized form has between 1 and 500 words,
\* hfSummarize issues exactly one summarization call and returns what came of
\* it (the summary, the failure placeholder, or the fixed string of a call
\* that raised) without merge or recursion: no second call is issued and no
\* second pass entered, however long the summary is.
C27_ShortTextOneCall ==
  /\ (HfTextRequest /\ SecondCallOrPass) => ~AtMostOneChunk(input.chars)
  /\ (HfTextRequest /\ pc = "done" /\ pass = 1 /\ Len(posts) <= 1
        /\ AtMostOneChunk(input.chars)) =>
       /\ Len(posts) = 1 /\ Len(replies) = 1
       /\ posts[1] = Normalize(input.chars)
       /\ IF replies[1] = "throw"
            THEN result = Returned(MsgAIUnavailable)
            ELSE /\ result = Returned(summaries[1])
                 /\ summaries[1] \in EntriesFor(posts[1], replies[1])

\* The summary of a text of five words has 501 words and was returned as it
\* came, after one call and in the first pass.
C27_Witness ==
  /\ op = "summarize" /\ impl = "hf" /\ kind = "text" /\ pc = "done"
  /\ input.chars = TextFive
  /\ Len(posts) = 1 /\ pass = 1
  /\ result = Returned(LongSummary)
  /\ WordCount(result.value) > 500

\* The string starts with `head` and ends with `last`.
StartsWith(s, head) ==
  Len(head) <= Len(s) /\ SubSeq(s, 1, Len(head)) = head

EndsWith(s, last) ==
  Len(last) <= Len(s) /\ SubSeq(s, Len(s) - Len(last) + 1, Len(s)) = last

\* C28: when the text has more sentences than the threshold, the sentence
\* positions ruleBasedTextSummarizer picks (0, n/3, 2n/3, n-1 or 0, n/2, n-1,
\* rounded down) lie within 0..n-1 and grow strictly, so the summary starts
\* with the first sentence, ends with the last, takes no position twice and
\* keeps the order of the text.
C28_IndicesInOrder ==
  (RuleReturned /\ SentenceCount(input.chars) > Threshold) =>
    LET sentences == Sentences(input.chars)
        n         == Len(sentences)
        picked    == IF impl = "hf" THEN summaryIndicesHF(n)
                                    ELSE summaryIndices(n)
    IN  /\ Len(picked) = Threshold + 1
        /\ \A k \in 1..Len(picked) : picked[k] \in 0..(n - 1)
        /\ \A k \in 1..(Len(picked) - 1) : picked[k] < picked[k + 1]
        /\ picked[1] = 0 /\ picked[Len(picked)] = n - 1
        /\ StartsWith(result.value, sentences[1] \o <<".">>)
        /\ EndsWith(result.value, <<" ">> \o sentences[n] \o <<".">>)
        /\ result.value =
             Spaced([k \in 1..Len(picked) |->
                       sentences[picked[k] + 1] \o <<".">>])

\* Four sentences in the four-point revisions: every one of them is picked,
\* once and in order.
C28_Witness ==
  /\ RuleReturned /\ impl = "pdflib" /\ input.chars = TightText(4)
  /\ summaryIndices(4) = <<0, 1, 2, 3>>
  /\ result.value = SpreadText(4)

\* The route has called summarizeText, which has not returned to it yet.
RouteHandedOver == route.rev # "none" /\ op = "summarize"

\* Where the text of a page is extracted: by the route's own fetch, by the
\* browser of summarizeText, or by its scraping service.
Extractors == {"origin", "browser", "scraper"}

\* C29: for a POST /api/summarize/url request with a non-empty URL, the
\* value handed to summarizeText with kind "link" is the address asked for,
\* so that page text is extracted once per request and never from text that
\* was itself extracted from the page.
C29_AddressHandedOver ==
  /\ RouteHandedOver =>
       /\ kind = "link"
       /\ route.link # <<>>
       /\ input = StringInput(route.link)
  /\ (route.rev # "none" /\ pc = "responded" /\ route.status = 200) =>
       Cardinality(outbound \cap Extractors) = 1

\* C30: on the summarizer page at most one request of handleSummarize is in
\* flight at any time, and loading is true whenever a request sent by
\* handleSummarize or by handlePdfUpload has not been answered yet, however
\* the handlers and the answers to their requests interleave.
C30_LoadingGuardsRequests ==
  op = "page" =>
    /\ calls.summarize <= 1
    /\ (calls.summarize + calls.upload > 0) => ui.loading
====
